---- MODULE Spec2Model ----
(***************************************************************************)
(* Monte Carlo lattice-update engine of the 2D Ising model:                *)
(*   State<N,M,bool>            src/src/mathutil.h    (lattice container)  *)
(*   IsingModel                 src/src/isingmodel.h  (physical model)     *)
(*   MetropolisMethod           src/src/mathutil.h    (accept/reject)      *)
(*   IsingHeatBathMethod<Square> src/src/mathutil.h   (heat bath)          *)
(*   drivers                    src/src/isingspinconfig.h                  *)
(*                                                                         *)
(* Numbers.  Energies are integers (J is an int, spins are +1/-1).  The    *)
(* temperature T is a rational TNum/TDen with the fixed denominator TDen.  *)
(* A double that can be NaN or infinite is a record [k, n, d]: k is one of *)
(* "nan", "pinf", "ninf", "fin" and n/d (d > 0) is the value when k="fin". *)
(*                                                                         *)
(* Random numbers.  Every class owns ONE static std::mt19937 (inline       *)
(* static member); the generator is modelled as a full-period congruential *)
(* generator on 0..RngMod-1: seeding is a function of the seed, every draw *)
(* advances the state and returns it, and a distribution scales the raw    *)
(* value to its range.  A draw u of rand01 is one of the levels of ULevel; *)
(* the comparisons u < exp(-x) and u < 0.5*(tanh(x)+1) are decided through *)
(* the monotone transforms  -ln(u) > x  and  ln(u/(1-u))/2 < x.            *)
(***************************************************************************)
EXTENDS Integers, Sequences, FiniteSets, TLC

VARIABLES
    N, M,          \* template parameters of State<N, M, bool>
    state,         \* state[l]: _elements of lattice object l
    param,         \* param[i]: IsingModel::param of model object i
    metro,         \* metro[k]: MetropolisMethod::obj of sampler object k
    heat,          \* heat[h]: IsingHeatBathMethod::ising of sampler object h
    mtState,       \* State<N,M,bool>::mt      (static, one per class)
    mtIsing,       \* IsingModel::mt           (static, one per class)
    mtHeatBath,    \* IsingHeatBathMethod<Square>::mt (static, one per class)
    loop,          \* position of a running optimize<stepCount>() call
    drv,           \* position of the fixed-seed driver
    last,          \* the last operation: its inputs, draws and writes
    own,           \* per object: the seed it was last reseeded with, its draws
    nops,          \* number of operations performed so far
    random,        \* the static distribution of State<N,M,double>::initRand:
                   \* its (min, max), <<>> before the first call
    view,          \* the members of the viewer's CellItem
    net            \* Network::train: its locals and linfo

vars == <<N, M, state, param, metro, heat, mtState, mtIsing, mtHeatBath,
          loop, drv, last, own, nops, random, view, net>>

----------------------------------------------------------------------------
(* Bounds of the model                                                     *)

MaxSteps == 2        \* largest stepCount given to optimize<stepCount>
MaxSeed == 3         \* seeds 0..MaxSeed are passed to setSeed
MaxDev == 1          \* std::random_device returns one of 0..MaxDev
MaxJ == 2            \* coupling constants -MaxJ..MaxJ
MaxOps == 3          \* operations of a behaviour of SpecStreams

Seeds == 0..MaxSeed
DevValues == 0..MaxDev
Couplings == (-MaxJ)..MaxJ
\* the temperatures a sweep visits, as numerators over TDen: 0.0, 0.1, 2.5
SweepTemps == <<0, 1, 25>>
\* the template arguments <N, M> the lattices are instantiated with
Shapes == {<<4, 4>>, <<3, 3>>, <<2, 3>>, <<3, 1>>}

----------------------------------------------------------------------------
(* Extended doubles                                                        *)

TDen == 10

NaN == [k |-> "nan", n |-> 0, d |-> 1]
PInf == [k |-> "pinf", n |-> 0, d |-> 1]
NInf == [k |-> "ninf", n |-> 0, d |-> 1]
Fin(a, b) == [k |-> "fin", n |-> a, d |-> b]

Sign(x) == IF x.k = "pinf" THEN 1 ELSE IF x.k = "ninf" THEN -1
           ELSE IF x.n > 0 THEN 1 ELSE IF x.n < 0 THEN -1 ELSE 0

Neg(x) == IF x.k = "pinf" THEN NInf ELSE IF x.k = "ninf" THEN PInf
          ELSE IF x.k = "nan" THEN NaN ELSE Fin(-x.n, x.d)

\* the smallest positive double, std::numeric_limits<double>::denorm_min()
Tiny == [k |-> "tiny", n |-> 1, d |-> 1]

\* IEEE-754 x / y for finite x and finite y >= 0; a nonzero x of the model
\* divided by the smallest positive double overflows to an infinity
Div(x, y) ==
    IF x.k = "nan" \/ y.k = "nan" THEN NaN
    ELSE IF y.k = "tiny"
    THEN (IF x.n = 0 THEN Fin(0, 1) ELSE IF x.n > 0 THEN PInf ELSE NInf)
    ELSE IF y.n = 0 THEN (IF x.n = 0 THEN NaN ELSE IF x.n > 0 THEN PInf ELSE NInf)
    ELSE Fin(x.n * y.d, x.d * y.n)

\* IEEE-754 x * y
Mul(x, y) ==
    IF x.k = "nan" \/ y.k = "nan" THEN NaN
    ELSE IF x.k = "fin" /\ y.k = "fin" THEN Fin(x.n * y.n, x.d * y.d)
    ELSE IF Sign(x) = 0 \/ Sign(y) = 0 THEN NaN
    ELSE IF Sign(x) * Sign(y) > 0 THEN PInf ELSE NInf

\* x < y on extended doubles; every comparison with NaN is false
Less(x, y) ==
    IF x.k = "nan" \/ y.k = "nan" THEN FALSE
    ELSE IF x.k = "pinf" \/ y.k = "ninf" THEN FALSE
    ELSE IF x.k = "ninf" \/ y.k = "pinf" THEN TRUE
    ELSE x.n * y.d < y.n * x.d

----------------------------------------------------------------------------
(* std::mt19937 and the distributions                                      *)

RngMod == 128
RngA == 105
RngC == 123
RngStates == 0..(RngMod - 1)

\* mt.seed(seed)
SeedState(seed) == seed % RngMod

\* one invocation of the generator: the new state is the raw value returned
RngStep(x) == (RngA * x + RngC) % RngMod

RECURSIVE RngAfter(_, _)
RngAfter(x, k) == IF k = 0 THEN x ELSE RngAfter(RngStep(x), k - 1)

\* std::uniform_int_distribution<>(lo, hi) applied to a raw value
UniformInt(raw, lo, hi) == lo + ((raw * (hi - lo + 1)) \div RngMod)

\* std::uniform_real_distribution<>(0, 1): the level of u in [0, 1)
ULevel == <<"0", "1/4", "1/2", "3/4", "0.999">>
Rand01(raw) == 1 + ((raw * Len(ULevel)) \div RngMod)

\* -ln(u), to four decimals: u < exp(-x)  <=>  x < -ln(u)
NegLnU(u) == CASE u = 1 -> PInf
               [] u = 2 -> Fin(13863, 10000)
               [] u = 3 -> Fin(6931, 10000)
               [] u = 4 -> Fin(2877, 10000)
               [] u = 5 -> Fin(10, 10000)

\* ln(u/(1-u))/2, to four decimals: u < 0.5*(tanh(x)+1)  <=>  ln(u/(1-u))/2 < x
HalfLogitU(u) == CASE u = 1 -> NInf
                   [] u = 2 -> Fin(-5493, 10000)
                   [] u = 3 -> Fin(0, 10000)
                   [] u = 4 -> Fin(5493, 10000)
                   [] u = 5 -> Fin(34534, 10000)

----------------------------------------------------------------------------
(* State<N, M, bool>                                                       *)

Cells(n, m) == (0..(n - 1)) \X (0..(m - 1))
Lattices(n, m) == [Cells(n, m) -> BOOLEAN]

\* State(const T& init) and State::init(value)
Filled(n, m, value) == [c \in Cells(n, m) |-> value]

\* the lattice with the cells of `cells` set to value
Written(lat, cells, value) ==
    [c \in DOMAIN lat |-> IF c \in cells THEN value ELSE lat[c]]

\* State::initRand for bool: cell k (row-major) takes draw k+1 of the
\* stream, bitRand(mt) % 2 == 0
InitRandLattice(n, m, x) ==
    [c \in Cells(n, m) |->
        UniformInt(RngAfter(x, c[1] * m + c[2] + 1), 0, 1) % 2 = 0]

----------------------------------------------------------------------------
(* IsingModel                                                              *)

\* IsingModel::Parameter with its default member initialisers (N and z are
\* read by freeEnergy and Tc only)
DefaultParam == [J |-> 1, T |-> 1, kb |-> 1]

isingSpin(b) == IF b THEN 1 ELSE -1

kbT(p) == Fin(p.kb * p.T, TDen)

\* the loops running over every row and every column, each pair taken when
\* its second site exists
RECURSIVE EnergyLoopAllPairs(_, _, _, _, _, _)
EnergyLoopAllPairs(lat, n, m, J, r, c) ==
    IF r >= n THEN 0
    ELSE IF c >= m THEN EnergyLoopAllPairs(lat, n, m, J, r + 1, 0)
    ELSE (-J) * (isingSpin(lat[<<r, c>>]) *
                 ((IF c + 1 < m THEN isingSpin(lat[<<r, c + 1>>]) ELSE 0)
                  + (IF r + 1 < n THEN isingSpin(lat[<<r + 1, c>>]) ELSE 0)))
         + EnergyLoopAllPairs(lat, n, m, J, r, c + 1)

\* the loops of IsingModel::energy: r < rows() - 1, c < cols() - 1
RECURSIVE EnergyLoop(_, _, _, _, _, _)
EnergyLoop(lat, n, m, J, r, c) ==
    IF r >= n - 1 THEN 0
    ELSE IF c >= m - 1 THEN EnergyLoop(lat, n, m, J, r + 1, 0)
    ELSE (-J) * (isingSpin(lat[<<r, c>>]) *
                 (isingSpin(lat[<<r, c + 1>>]) + isingSpin(lat[<<r + 1, c>>])))
         + EnergyLoop(lat, n, m, J, r, c + 1)

energy(lat, n, m, p) == EnergyLoop(lat, n, m, p.J, 0, 0)

\* randomAction without the else-if branches: only row 0 and column 0 mirror
RandomActionCellsOneWay(row, col, n, m) ==
    {<<row, col>>}
    \cup (IF row = 0 THEN {<<n - 1, col>>} ELSE {})
    \cup (IF col = 0 THEN {<<row, m - 1>>} ELSE {})

\* the cells IsingModel::randomAction writes for the chosen (row, col)
RandomActionCells(row, col, n, m) ==
    {<<row, col>>}
    \cup (IF row = 0 THEN {<<n - 1, col>>}
          ELSE IF row = n - 1 THEN {<<0, col>>} ELSE {})
    \cup (IF col = 0 THEN {<<row, m - 1>>}
          ELSE IF col = m - 1 THEN {<<row, 0>>} ELSE {})

\* IsingModel::randomAction on a lattice, the class stream being in state x:
\* two draws (row, then col), the chosen site negated, its mirrors written
randomAction(lat, n, m, x) ==
    LET row == UniformInt(RngAfter(x, 1), 0, n - 1)
        col == UniformInt(RngAfter(x, 2), 0, m - 1)
        value == ~lat[<<row, col>>]
        cells == RandomActionCells(row, col, n, m)
    IN  [state |-> Written(lat, cells, value), row |-> row, col |-> col,
         value |-> value, cells |-> cells, mt |-> RngAfter(x, 2)]

\* u < exp(arg) with an infinite exponential treated as an invalid value
ExpAboveInfInvalid(u, arg) ==
    IF arg.k = "nan" \/ arg.k = "ninf" \/ arg.k = "pinf" THEN FALSE
    ELSE IF Less(arg, Fin(-74513, 100)) THEN FALSE
    ELSE Less(Neg(arg), NegLnU(u))

\* u < exp(arg) in doubles: exp(NaN) is NaN, exp(+inf) is +inf, exp(-inf)
\* is 0 and exp underflows to 0 below about -745.13
ExpAbove(u, arg) ==
    IF arg.k = "nan" \/ arg.k = "ninf" THEN FALSE
    ELSE IF arg.k = "pinf" THEN TRUE
    ELSE IF Less(arg, Fin(-74513, 100)) THEN FALSE
    ELSE Less(Neg(arg), NegLnU(u))

\* IsingModel::randomAccept, the class stream being in state x: one draw
randomAccept(prevEnergy, nextEnergy, p, x) ==
    LET u == Rand01(RngAfter(x, 1))
        arg == Div(Fin(-(nextEnergy - prevEnergy), 1), kbT(p))
    IN  [accept |-> ExpAbove(u, arg), u |-> u, mt |-> RngAfter(x, 1)]

\* magnetization counting an up cell as 1 and a down cell as 0
magnetizationUpCount(lat) == Cardinality({c \in DOMAIN lat : lat[c]})

\* IsingModel::magnetization
RECURSIVE SpinSum(_, _)
SpinSum(lat, cells) ==
    IF cells = {} THEN 0
    ELSE LET c == CHOOSE c \in cells : TRUE
         IN  isingSpin(lat[c]) + SpinSum(lat, cells \ {c})

magnetization(lat) == SpinSum(lat, DOMAIN lat)

\* IsingModel::averageSpin: static_assert(spinCount != 0), then
\* magnetization(state) / spinCount
averageSpin(lat, n, m) ==
    IF n * m = 0 THEN "static_assert: division by zero"
    ELSE Div(Fin(magnetization(lat), 1), Fin(n * m, 1))

----------------------------------------------------------------------------
(* MetropolisMethod<IsingModel, State, energy, randomAction, randomAccept>  *)

\* update without the nextEnergy < prevEnergy shortcut: fRandAccept is always asked
MetropolisUpdateAlwaysAsk(lat, n, m, p, x) ==
    LET prevEnergy == energy(lat, n, m, p)
        act == randomAction(lat, n, m, x)
        nextEnergy == energy(act.state, n, m, p)
        acc == randomAccept(prevEnergy, nextEnergy, p, act.mt)
    IN  [trial |-> act.state, row |-> act.row, col |-> act.col,
         value |-> act.value, cells |-> act.cells,
         prevE |-> prevEnergy, nextE |-> nextEnergy,
         state |-> IF acc.accept THEN act.state ELSE lat,
         asked |-> TRUE, accept |-> acc.accept,
         u |-> acc.u, mt |-> acc.mt, draws |-> 3]

\* update with fAction applied to state itself instead of a copy
MetropolisUpdateInPlace(lat, n, m, p, x) ==
    LET prevEnergy == energy(lat, n, m, p)
        act == randomAction(lat, n, m, x)
        nextEnergy == energy(act.state, n, m, p)
        acc == randomAccept(prevEnergy, nextEnergy, p, act.mt)
        low == nextEnergy < prevEnergy
    IN  [trial |-> act.state, row |-> act.row, col |-> act.col,
         value |-> act.value, cells |-> act.cells,
         prevE |-> prevEnergy, nextE |-> nextEnergy,
         state |-> act.state,
         asked |-> ~low, accept |-> low \/ acc.accept,
         u |-> IF low THEN 0 ELSE acc.u,
         mt |-> IF low THEN act.mt ELSE acc.mt,
         draws |-> IF low THEN 2 ELSE 3]

\* MetropolisMethod::update on lattice lat with the parameters p of *obj,
\* IsingModel::mt being in state x.  asked: fRandAccept was called.
MetropolisUpdate(lat, n, m, p, x) ==
    LET prevEnergy == energy(lat, n, m, p)
        act == randomAction(lat, n, m, x)
        nextState == act.state
        nextEnergy == energy(nextState, n, m, p)
        acc == randomAccept(prevEnergy, nextEnergy, p, act.mt)
        base == [trial |-> nextState, row |-> act.row, col |-> act.col,
                 value |-> act.value, cells |-> act.cells,
                 prevE |-> prevEnergy, nextE |-> nextEnergy]
    IN  IF nextEnergy < prevEnergy
        THEN base @@ [state |-> nextState, asked |-> FALSE, accept |-> TRUE,
                      u |-> 0, mt |-> act.mt, draws |-> 2]
        ELSE base @@ [state |-> IF acc.accept THEN nextState ELSE lat,
                      asked |-> TRUE, accept |-> acc.accept,
                      u |-> acc.u, mt |-> acc.mt, draws |-> 3]

\* the loop running once too often
MetropolisLoopCondOffByOne(i, stepCount) == i <= stepCount

\* the loop condition of MetropolisMethod::optimize<stepCount>
MetropolisLoopCond(i, stepCount) == i < stepCount

----------------------------------------------------------------------------
(* IsingHeatBathMethod<LatticeType::Square>                                *)

\* neighborSpin with modulo wraparound: the previous index of 0 is size-1,
\* the next index of size-1 is 0
neighborSpinModulo(lat, n, m, row, col) ==
    LET up == IF row = 0 THEN n - 1 ELSE row - 1
        down == IF row = n - 1 THEN 0 ELSE row + 1
        left == IF col = 0 THEN m - 1 ELSE col - 1
        right == IF col = m - 1 THEN 0 ELSE col + 1
        rowAxis == isingSpin(lat[<<up, col>>]) + isingSpin(lat[<<down, col>>])
        colAxis == isingSpin(lat[<<row, left>>]) + isingSpin(lat[<<row, right>>])
    IN  IF n > 2 /\ m > 2 THEN rowAxis + colAxis
        ELSE (IF n > 2 THEN rowAxis ELSE 0) + (IF m > 2 THEN colAxis ELSE 0)

\* IsingHeatBathMethod<Square>::neighborSpin
neighborSpin(lat, n, m, row, col) ==
    LET up == IF row = 0 THEN n - 2 ELSE row - 1
        down == IF row = n - 1 THEN 1 ELSE row + 1
        left == IF col = 0 THEN m - 2 ELSE col - 1
        right == IF col = m - 1 THEN 1 ELSE col + 1
        rowAxis == isingSpin(lat[<<up, col>>]) + isingSpin(lat[<<down, col>>])
        colAxis == isingSpin(lat[<<row, left>>]) + isingSpin(lat[<<row, right>>])
    IN  IF n > 2 /\ m > 2 THEN rowAxis + colAxis
        ELSE (IF n > 2 THEN rowAxis ELSE 0) + (IF m > 2 THEN colAxis ELSE 0)

\* u < 0.5 * (tanh(arg) + 1.0) in doubles: tanh(NaN) is NaN, tanh(+-inf) is
\* +-1, and tanh(x) rounds to exactly +-1 from about |x| = 19.0615 on
TanhAbove(u, arg) ==
    IF arg.k = "nan" \/ arg.k = "ninf" THEN FALSE
    ELSE IF arg.k = "pinf" THEN TRUE
    ELSE IF Less(arg, Fin(-190615, 10000)) THEN FALSE
    ELSE IF Less(Fin(190615, 10000), arg) THEN TRUE
    ELSE Less(HalfLogitU(u), arg)

\* the value IsingHeatBathMethod::update gives the chosen site: neighbor sum
\* spin, parameters p, draw u
HeatBathValue(spin, p, u) ==
    TanhAbove(u, Mul(Div(Fin(p.J, 1), kbT(p)), Fin(spin, 1)))

\* 0.5 * (std::tanh(J / kbT * spin) + 1.0) as a double: "nan", "zero" (0.0),
\* "one" (1.0), or "inside" (a value strictly between 0 and 1)
HeatBathThreshold(J, kbt, spin) ==
    LET arg == Mul(Div(Fin(J, 1), kbt), Fin(spin, 1))
    IN  IF arg.k = "nan" THEN "nan"
        ELSE IF arg.k = "pinf" \/ Less(Fin(190615, 10000), arg) THEN "one"
        ELSE IF arg.k = "ninf" \/ Less(arg, Fin(-190615, 10000)) THEN "zero"
        ELSE "inside"

\* the cells IsingHeatBathMethod::update writes for the chosen (row, col)
HeatBathCells(row, col, n, m) ==
    {<<row, col>>}
    \cup (IF row = 0 THEN {<<n - 1, col>>}
          ELSE IF row = n - 1 THEN {<<0, col>>} ELSE {})
    \cup (IF col = 0 THEN {<<row, m - 1>>}
          ELSE IF col = m - 1 THEN {<<row, 0>>} ELSE {})

\* update as an accept/reject step: the site becomes up if the test
\* succeeds and keeps its value otherwise
HeatBathUpdateKeep(lat, n, m, p, x) ==
    LET row == UniformInt(RngAfter(x, 1), 0, n - 1)
        col == UniformInt(RngAfter(x, 2), 0, m - 1)
        spin == neighborSpin(lat, n, m, row, col)
        u == Rand01(RngAfter(x, 3))
        value == IF HeatBathValue(spin, p, u) THEN TRUE ELSE lat[<<row, col>>]
        cells == HeatBathCells(row, col, n, m)
    IN  [state |-> Written(lat, cells, value), row |-> row, col |-> col,
         S |-> spin, u |-> u, value |-> value, cells |-> cells,
         mt |-> RngAfter(x, 3), draws |-> 3]

\* update drawing u only when the threshold is strictly between 0 and 1:
\* a saturated threshold decides the site without a draw
HeatBathUpdateDrawsOnDemand(lat, n, m, p, x) ==
    LET row == UniformInt(RngAfter(x, 1), 0, n - 1)
        col == UniformInt(RngAfter(x, 2), 0, m - 1)
        spin == neighborSpin(lat, n, m, row, col)
        k == IF HeatBathThreshold(p.J, kbT(p), spin) = "inside" THEN 3 ELSE 2
        u == Rand01(RngAfter(x, 3))
        value == HeatBathValue(spin, p, u)
        cells == HeatBathCells(row, col, n, m)
    IN  [state |-> Written(lat, cells, value), row |-> row, col |-> col,
         S |-> spin, u |-> u, value |-> value, cells |-> cells,
         mt |-> RngAfter(x, k), draws |-> k]

\* IsingHeatBathMethod::update on lattice lat with the parameters p of
\* *ising, IsingHeatBathMethod::mt being in state x: three draws
HeatBathUpdate(lat, n, m, p, x) ==
    LET row == UniformInt(RngAfter(x, 1), 0, n - 1)
        col == UniformInt(RngAfter(x, 2), 0, m - 1)
        spin == neighborSpin(lat, n, m, row, col)
        u == Rand01(RngAfter(x, 3))
        value == HeatBathValue(spin, p, u)
        cells == HeatBathCells(row, col, n, m)
    IN  [state |-> Written(lat, cells, value), row |-> row, col |-> col,
         S |-> spin, u |-> u, value |-> value, cells |-> cells,
         mt |-> RngAfter(x, 3), draws |-> 3]

\* the loop condition of IsingHeatBathMethod::optimize<stepCount>
HeatBathLoopCond(i, stepCount) == i < stepCount

----------------------------------------------------------------------------
(* Operations on the objects.  Each is the whole member function; it sets  *)
(* every variable but drv, nops, view and net, which belong to the caller.  *)

NoLast == [op |-> "none", obj |-> 0, lat |-> 0, p |-> DefaultParam,
           before |-> <<>>, after |-> <<>>, trial |-> <<>>,
           row |-> 0, col |-> 0, value |-> FALSE, cells |-> {},
           prevE |-> 0, nextE |-> 0, asked |-> FALSE, accept |-> FALSE,
           u |-> 0, S |-> 0, mt0 |-> 0, draws |-> 0, res |-> 0]

\* int _maxCount = 10000;
DefaultMaxCount == 10000

\* the members of a CellItem that is not constructed yet, with their default
\* member initialisers; updates, maxSeen, ops and did are history: the
\* updates applied and the largest _maxCount in effect since the last
\* initCell, the number of slots run, and the slot that ran last
NoView == [built |-> FALSE, stepCount |-> 0, maxCount |-> DefaultMaxCount,
           active |-> FALSE, method |-> 0, updates |-> 0,
           maxSeen |-> DefaultMaxCount, ops |-> 0, did |-> "none"]

\* Network::train not called yet; reads and steps are history: the indexes
\* into the training set read so far and the loop bodies run
NoNet == [pc |-> "idle", size |-> 0, batchSize |-> 0, stepCount |-> 0,
          numIter |-> 0, step |-> 0, epoch |-> 0, breakFlag |-> FALSE,
          dataIndexes |-> <<>>, reads |-> {}, steps |-> 0]

NoLoop == [on |-> FALSE, kind |-> "none", s |-> 0, l |-> 0, i |-> 0,
           stepCount |-> 0, calls |-> 0, entry |-> <<>>, mt0 |-> 0]

NotSeeded == [seed |-> -1, base |-> 0, vals |-> <<>>]

Objects(lats, mods, hbs) ==
    ({"State"} \X lats) \cup ({"IsingModel"} \X mods)
    \cup ({"IsingHeatBathMethod"} \X hbs)

\* object o makes k draws from its class stream, which is in state x
Drew(o, x, k) ==
    [own EXCEPT ![o] =
        IF @.seed = -1 THEN @
        ELSE [seed |-> @.seed, base |-> @.base + Len(@.vals),
              vals |-> [j \in 1..k |-> RngAfter(x, j)]]]

\* setSeed called through object o
Reseeded(o, seed) ==
    [own EXCEPT ![o] = [seed |-> seed, base |-> 0, vals |-> <<>>]]

\* init whose loops stop one site short: the last site keeps its value
InitOpSkipsLast(l, value) ==
    LET filled == Written(state[l], Cells(N, M) \ {<<N - 1, M - 1>>}, value)
    IN  /\ state' = [state EXCEPT ![l] = filled]
        /\ last' = [op |-> "init", obj |-> l, lat |-> l, value |-> value,
                    before |-> state[l], after |-> filled] @@ NoLast
        /\ UNCHANGED <<random, N, M, param, metro, heat, mtState, mtIsing,
                       mtHeatBath, loop, own>>

\* State::init(value)
InitOp(l, value) ==
    /\ state' = [state EXCEPT ![l] = Filled(N, M, value)]
    /\ last' = [op |-> "init", obj |-> l, lat |-> l, value |-> value,
                before |-> state[l], after |-> Filled(N, M, value)] @@ NoLast
    /\ UNCHANGED <<random, N, M, param, metro, heat, mtState, mtIsing, mtHeatBath,
                   loop, own>>

\* State::initRand() of State<N, M, bool>
InitRandOp(l) ==
    /\ state' = [state EXCEPT ![l] = InitRandLattice(N, M, mtState)]
    /\ mtState' = RngAfter(mtState, N * M)
    /\ own' = Drew(<<"State", l>>, mtState, N * M)
    /\ last' = [op |-> "initRand", obj |-> l, lat |-> l, before |-> state[l],
                after |-> InitRandLattice(N, M, mtState), mt0 |-> mtState,
                draws |-> N * M] @@ NoLast
    /\ UNCHANGED <<random, N, M, param, metro, heat, mtIsing, mtHeatBath, loop>>

\* State::setSeed(seed), a static member called through object l
SetSeedStateOp(l, seed) ==
    /\ mtState' = SeedState(seed)
    /\ own' = Reseeded(<<"State", l>>, seed)
    /\ last' = [op |-> "setSeedState", obj |-> l, res |-> seed] @@ NoLast
    /\ UNCHANGED <<random, N, M, state, param, metro, heat, mtIsing, mtHeatBath, loop>>

\* setSeed that leaves the generator as it is
SetSeedIsingOpKeeps(i, seed) ==
    /\ own' = Reseeded(<<"IsingModel", i>>, seed)
    /\ last' = [op |-> "setSeedIsing", obj |-> i, res |-> seed] @@ NoLast
    /\ UNCHANGED <<random, N, M, state, param, metro, heat, mtState, mtIsing,
                   mtHeatBath, loop>>

\* IsingModel::setSeed(seed), a static member called through object i
SetSeedIsingOp(i, seed) ==
    /\ mtIsing' = SeedState(seed)
    /\ own' = Reseeded(<<"IsingModel", i>>, seed)
    /\ last' = [op |-> "setSeedIsing", obj |-> i, res |-> seed] @@ NoLast
    /\ UNCHANGED <<random, N, M, state, param, metro, heat, mtState, mtHeatBath, loop>>

\* IsingHeatBathMethod::setSeed(seed), a static member called through h
SetSeedHeatBathOp(h, seed) ==
    /\ mtHeatBath' = SeedState(seed)
    /\ own' = Reseeded(<<"IsingHeatBathMethod", h>>, seed)
    /\ last' = [op |-> "setSeedHeatBath", obj |-> h, res |-> seed] @@ NoLast
    /\ UNCHANGED <<random, N, M, state, param, metro, heat, mtState, mtIsing, loop>>

\* ising.param.T = T
SetTOp(i, t) ==
    /\ param' = [param EXCEPT ![i].T = t]
    /\ last' = [op |-> "setT", obj |-> i, res |-> t] @@ NoLast
    /\ UNCHANGED <<random, N, M, state, metro, heat, mtState, mtIsing, mtHeatBath,
                   loop, own>>

\* ising.param.J = j
SetJOp(i, j) ==
    /\ param' = [param EXCEPT ![i].J = j]
    /\ last' = [op |-> "setJ", obj |-> i, res |-> j] @@ NoLast
    /\ UNCHANGED <<random, N, M, state, metro, heat, mtState, mtIsing, mtHeatBath,
                   loop, own>>

\* ising.param.kb = kb
SetKbOp(i, kb) ==
    /\ param' = [param EXCEPT ![i].kb = kb]
    /\ last' = [op |-> "setKb", obj |-> i, res |-> kb] @@ NoLast
    /\ UNCHANGED <<random, N, M, state, metro, heat, mtState, mtIsing, mtHeatBath,
                   loop, own>>

\* MetropolisMethod::update(state) of sampler k on lattice l
MetropolisUpdateOp(k, l) ==
    LET r == MetropolisUpdate(state[l], N, M, param[metro[k]], mtIsing)
    IN  /\ state' = [state EXCEPT ![l] = r.state]
        /\ mtIsing' = r.mt
        /\ own' = Drew(<<"IsingModel", metro[k]>>, mtIsing, r.draws)
        /\ last' = [op |-> "metropolis", obj |-> k, lat |-> l,
                    p |-> param[metro[k]], before |-> state[l],
                    after |-> r.state, trial |-> r.trial, row |-> r.row,
                    col |-> r.col, value |-> r.value, cells |-> r.cells,
                    prevE |-> r.prevE, nextE |-> r.nextE, asked |-> r.asked,
                    accept |-> r.accept, u |-> r.u, mt0 |-> mtIsing,
                    draws |-> r.draws] @@ NoLast
        /\ UNCHANGED <<random, N, M, param, metro, heat, mtState, mtHeatBath>>

\* update of a sampler holding the Parameter values of its construction
\* instead of the pointer to the model
HeatBathUpdateOpByValue(h, l) ==
    LET r == HeatBathUpdate(state[l], N, M, DefaultParam, mtHeatBath)
    IN  /\ state' = [state EXCEPT ![l] = r.state]
        /\ mtHeatBath' = r.mt
        /\ own' = Drew(<<"IsingHeatBathMethod", h>>, mtHeatBath, r.draws)
        /\ last' = [op |-> "heatbath", obj |-> h, lat |-> l,
                    p |-> DefaultParam, before |-> state[l],
                    after |-> r.state, row |-> r.row, col |-> r.col,
                    value |-> r.value, cells |-> r.cells, S |-> r.S,
                    u |-> r.u, mt0 |-> mtHeatBath, draws |-> r.draws] @@ NoLast
        /\ UNCHANGED <<random, N, M, param, metro, heat, mtState, mtIsing>>

\* IsingHeatBathMethod::update(state) of sampler h on lattice l
HeatBathUpdateOp(h, l) ==
    LET r == HeatBathUpdate(state[l], N, M, param[heat[h]], mtHeatBath)
    IN  /\ state' = [state EXCEPT ![l] = r.state]
        /\ mtHeatBath' = r.mt
        /\ own' = Drew(<<"IsingHeatBathMethod", h>>, mtHeatBath, r.draws)
        /\ last' = [op |-> "heatbath", obj |-> h, lat |-> l,
                    p |-> param[heat[h]], before |-> state[l],
                    after |-> r.state, row |-> r.row, col |-> r.col,
                    value |-> r.value, cells |-> r.cells, S |-> r.S,
                    u |-> r.u, mt0 |-> mtHeatBath, draws |-> r.draws] @@ NoLast
        /\ UNCHANGED <<random, N, M, param, metro, heat, mtState, mtIsing>>

\* optimize<stepCount>(state) is entered: size_t i = 0
OptimizeEnter(kind, s, l, stepCount) ==
    /\ ~loop.on
    /\ loop' = [on |-> TRUE, kind |-> kind, s |-> s, l |-> l, i |-> 0,
                stepCount |-> stepCount, calls |-> 0, entry |-> state[l],
                mt0 |-> IF kind = "metropolis" THEN mtIsing ELSE mtHeatBath]
    /\ last' = [op |-> "optimize", obj |-> s, lat |-> l, res |-> stepCount,
                before |-> state[l], after |-> state[l]] @@ NoLast
    /\ UNCHANGED <<random, N, M, state, param, metro, heat, mtState, mtIsing,
                   mtHeatBath, own>>

\* one iteration of MetropolisMethod::optimize: i < stepCount, update, ++i
MetropolisOptimizeStep ==
    /\ loop.on /\ loop.kind = "metropolis"
    /\ MetropolisLoopCond(loop.i, loop.stepCount)
    /\ MetropolisUpdateOp(loop.s, loop.l)
    /\ loop' = [loop EXCEPT !.i = @ + 1, !.calls = @ + 1]

\* one iteration of IsingHeatBathMethod::optimize
HeatBathOptimizeStep ==
    /\ loop.on /\ loop.kind = "heatbath"
    /\ HeatBathLoopCond(loop.i, loop.stepCount)
    /\ HeatBathUpdateOp(loop.s, loop.l)
    /\ loop' = [loop EXCEPT !.i = @ + 1, !.calls = @ + 1]

\* the loop condition fails and optimize returns
OptimizeReturn ==
    /\ loop.on
    /\ \/ loop.kind = "metropolis" /\ ~MetropolisLoopCond(loop.i, loop.stepCount)
       \/ loop.kind = "heatbath" /\ ~HeatBathLoopCond(loop.i, loop.stepCount)
    /\ loop' = [loop EXCEPT !.on = FALSE]
    /\ last' = [op |-> "return", obj |-> loop.s, lat |-> loop.l,
                res |-> loop.stepCount, before |-> loop.entry,
                after |-> state[loop.l]] @@ NoLast
    /\ UNCHANGED <<random, N, M, state, param, metro, heat, mtState, mtIsing,
                   mtHeatBath, own>>

----------------------------------------------------------------------------
(* The drivers of isingspinconfig.h.  Each holds one lattice, one model and *)
(* one sampler (objects 1).  drv.prog is the driver that runs:              *)
(*   "metropolis"  magnetizationOfSpinConfiguration                         *)
(*   "heatbath"    magnetizationOfSpinConfigurationHeatBath                 *)
(*   "fixedseed"   magnetizationOfSpinConfigurationHeatBathFixedSeed        *)
(* The sweep T = 0, 0.005, ... < 4 Tc is sampled at SweepTemps; updateCount *)
(* is drv.K.  The fixed-seed driver fills the lattice of its two runs with  *)
(* drv.fill[1] and drv.fill[2] (true and false in the source) and runs the  *)
(* sampler drv.kind (the heat bath in the source).                          *)

Sampler(d) == IF d.prog = "fixedseed" THEN d.kind ELSE d.prog

\* the lattice is recorded in the trajectory of the current run
Recorded(d, lat) == [d EXCEPT !.traj[d.run] = Append(@, lat)]

\* StateType state; leaves _elements unset: every driver fills the lattice
\* before any cell is read
Unset(shape) == Filled(shape[1], shape[2], FALSE)

\* the objects of a driver after construction, the lattice holding lat and
\* the three streams seeded from std::random_device
Constructed(shape, lat, rs, ri, rh) ==
    /\ N = shape[1] /\ M = shape[2]
    /\ state = [l \in {1} |-> lat]
    /\ param = [i \in {1} |-> DefaultParam]
    /\ metro = [k \in {1} |-> 1]
    /\ heat = [h \in {1} |-> 1]
    /\ mtState = SeedState(rs)
    /\ mtIsing = SeedState(ri)
    /\ mtHeatBath = SeedState(rh)
    /\ loop = NoLoop
    /\ last = NoLast
    /\ own = [o \in Objects({1}, {1}, {1}) |-> NotSeeded]
    /\ nops = 0
    /\ random = <<>>
    /\ view = NoView
    /\ net = NoNet

InitMetropolis ==
    \E shape \in Shapes, K \in 0..MaxSteps, r \in RngStates, d \in DevValues :
        /\ Constructed(shape, Unset(shape), d, r, d)
        /\ drv = [prog |-> "metropolis", kind |-> "metropolis", K |-> K,
                  seed |-> 0, fill |-> <<TRUE, FALSE>>, si |-> 1, run |-> 1,
                  pc |-> "initRand", traj |-> << <<>>, <<>> >>]

InitHeatBath ==
    \E shape \in Shapes, K \in 0..MaxSteps, r \in RngStates, d \in DevValues :
        /\ Constructed(shape, Unset(shape), d, d, r)
        /\ drv = [prog |-> "heatbath", kind |-> "heatbath", K |-> K,
                  seed |-> 0, fill |-> <<TRUE, FALSE>>, si |-> 1, run |-> 1,
                  pc |-> "initRand", traj |-> << <<>>, <<>> >>]

InitFixedSeed ==
    \E shape \in Shapes, K \in 0..MaxSteps, d \in DevValues,
       kind \in {"metropolis", "heatbath"}, seed \in Seeds,
       v1 \in BOOLEAN, v2 \in BOOLEAN :
        /\ Constructed(shape, Unset(shape), d, d, d)
        /\ drv = [prog |-> "fixedseed", kind |-> kind, K |-> K,
                  seed |-> seed, fill |-> <<v1, v2>>, si |-> 1, run |-> 1,
                  pc |-> "setT", traj |-> << <<>>, <<>> >>]

\* state.initRand();
DriverInitRand ==
    /\ drv.pc = "initRand"
    /\ InitRandOp(1)
    /\ drv' = [drv EXCEPT !.pc = "setT"]
    /\ UNCHANGED <<nops, view, net>>

\* ising.param.T = T;
DriverSetT ==
    /\ drv.pc = "setT"
    /\ SetTOp(1, SweepTemps[drv.si])
    /\ drv' = [drv EXCEPT !.pc = IF drv.prog = "fixedseed" THEN "seedState"
                                 ELSE "optimize",
                          !.traj = << <<>>, <<>> >>]
    /\ UNCHANGED <<nops, view, net>>

\* state.setSeed(seed);
DriverSeedState ==
    /\ drv.pc = "seedState"
    /\ SetSeedStateOp(1, drv.seed)
    /\ drv' = [drv EXCEPT !.pc = "seedIsing"]
    /\ UNCHANGED <<nops, view, net>>

\* ising.setSeed(seed);
DriverSeedIsing ==
    /\ drv.pc = "seedIsing"
    /\ SetSeedIsingOp(1, drv.seed)
    /\ drv' = [drv EXCEPT !.pc = "seedHeatBath"]
    /\ UNCHANGED <<nops, view, net>>

\* hbMethod.setSeed(seed);
DriverSeedHeatBath ==
    /\ drv.pc = "seedHeatBath"
    /\ SetSeedHeatBathOp(1, drv.seed)
    /\ drv' = [drv EXCEPT !.pc = "init"]
    /\ UNCHANGED <<nops, view, net>>

\* state.init(true); and state.init(false);
DriverInit ==
    /\ drv.pc = "init"
    /\ InitOp(1, drv.fill[drv.run])
    /\ drv' = [Recorded(drv, Filled(N, M, drv.fill[drv.run]))
                  EXCEPT !.pc = "optimize"]
    /\ UNCHANGED <<nops, view, net>>

\* metropolis.optimize<updateCount>(state); hbMethod.optimize<updateCount>(state);
DriverOptimize ==
    /\ drv.pc = "optimize"
    /\ OptimizeEnter(Sampler(drv), 1, 1, drv.K)
    /\ drv' = [drv EXCEPT !.pc = "running"]
    /\ UNCHANGED <<nops, view, net>>

DriverMetropolisStep ==
    /\ drv.pc = "running"
    /\ MetropolisOptimizeStep
    /\ drv' = Recorded(drv, state'[1])
    /\ UNCHANGED <<nops, view, net>>

DriverHeatBathStep ==
    /\ drv.pc = "running"
    /\ HeatBathOptimizeStep
    /\ drv' = Recorded(drv, state'[1])
    /\ UNCHANGED <<nops, view, net>>

DriverReturn ==
    /\ drv.pc = "running"
    /\ OptimizeReturn
    /\ drv' = [drv EXCEPT !.pc = "output"]
    /\ UNCHANGED <<nops, view, net>>

\* fout << t << ',' << IsingModel::averageSpin(state); T += 0.005;
\* res is the magnetization, the numerator of averageSpin over N * M
DriverOutput ==
    /\ drv.pc = "output"
    /\ last' = [op |-> "output", lat |-> 1, res |-> magnetization(state[1]),
                before |-> state[1], after |-> state[1]] @@ NoLast
    /\ drv' = IF drv.prog = "fixedseed" /\ drv.run = 1
              THEN [drv EXCEPT !.run = 2, !.pc = "seedState"]
              ELSE [drv EXCEPT !.run = 1, !.si = @ + 1,
                               !.pc = IF drv.si + 1 > Len(SweepTemps) THEN "done"
                                      ELSE IF drv.prog = "fixedseed" THEN "setT"
                                      ELSE "initRand"]
    /\ UNCHANGED <<random, N, M, state, param, metro, heat, mtState, mtIsing,
                   mtHeatBath, loop, own, nops, view, net>>

NoDrv == [prog |-> "none", kind |-> "none", K |-> 0, seed |-> 0,
          fill |-> <<TRUE, FALSE>>, si |-> 1, run |-> 1, pc |-> "none",
          traj |-> << <<>>, <<>> >>]

Init == InitMetropolis \/ InitHeatBath \/ InitFixedSeed

Next ==
    \/ DriverInitRand
    \/ DriverSetT
    \/ DriverSeedState
    \/ DriverSeedIsing
    \/ DriverSeedHeatBath
    \/ DriverInit
    \/ DriverOptimize
    \/ DriverMetropolisStep
    \/ DriverHeatBathStep
    \/ DriverReturn
    \/ DriverOutput

Spec == Init /\ [][Next]_vars

----------------------------------------------------------------------------
(* Claims checked on the drivers (Spec)                                    *)

\* the edge opposite to index idx of an axis of `size` sites, if idx is an edge
OppositeEdge(idx, size) ==
    IF idx = 0 THEN {size - 1} ELSE IF idx = size - 1 THEN {0} ELSE {}

OnEdge(idx, size) == idx = 0 \/ idx = size - 1

Differing(a, b) == {c \in DOMAIN a : a[c] # b[c]}

\* C1: a Metropolis update leaves the lattice either as it was or equal to
\* the trial (the copy with the proposed mutation applied); when
\* nextE >= prevE and the acceptance test fails, no cell has changed.
C1_MetropolisFrame ==
    last.op = "metropolis" =>
        LET now == state[last.lat]
            prevE == energy(last.before, N, M, last.p)
            nextE == energy(last.trial, N, M, last.p)
        IN  /\ now = last.before \/ now = last.trial
            /\ last.trial[<<last.row, last.col>>]
                 = ~last.before[<<last.row, last.col>>]
            /\ (nextE >= prevE /\ ~last.accept) =>
                   \A c \in Cells(N, M) : now[c] = last.before[c]

C1_Witness ==
    /\ last.op = "metropolis"
    /\ last.nextE >= last.prevE /\ last.asked /\ ~last.accept
    /\ state[last.lat] = last.before
    /\ last.trial # last.before

\* C2: a trial of strictly lower energy always replaces the state, the
\* acceptance test is not consulted and no random number is drawn for it
\* (the stream has advanced by the two draws of the proposal only).
C2_LowerEnergyAccepted ==
    (/\ last.op = "metropolis"
     /\ energy(last.trial, N, M, last.p) < energy(last.before, N, M, last.p))
    =>  /\ state[last.lat] = last.trial
        /\ ~last.asked
        /\ mtIsing = RngAfter(last.mt0, 2)

C2_Witness ==
    /\ last.op = "metropolis"
    /\ last.nextE < last.prevE
    /\ state[last.lat] = last.trial
    /\ last.p.T > 0

\* C3: a heat-bath update writes only the chosen site and its edge mirrors,
\* all with one value; there is no accept/reject step: the value follows
\* from the neighbor sum, the parameters and the draw u, and is the same
\* when the chosen site held the other value before.
C3_HeatBathFrame ==
    last.op = "heatbath" =>
        LET now == state[last.lat]
            site == <<last.row, last.col>>
            mirrors == ({last.row} \cup OppositeEdge(last.row, N))
                       \X ({last.col} \cup OppositeEdge(last.col, M))
            flipped == Written(last.before, {site}, ~last.before[site])
        IN  /\ site \in last.cells /\ last.cells \subseteq mirrors
            /\ \A c \in Cells(N, M) :
                   now[c] = IF c \in last.cells THEN last.value
                            ELSE last.before[c]
            /\ last.value = HeatBathValue(last.S, last.p, last.u)
            /\ last.S = neighborSpin(flipped, N, M, last.row, last.col)
            /\ now[site] =
                 HeatBathValue(neighborSpin(flipped, N, M, last.row, last.col),
                               last.p, last.u)

C3_Witness ==
    /\ last.op = "heatbath"
    /\ last.before[<<last.row, last.col>>] = TRUE
    /\ last.value = FALSE
    /\ Cardinality(last.cells) = 2
    /\ last.p.T > 0

\* C4: on a 4x4 lattice a proposeMutation or heat-bath update that targets
\* the corner (0,0) gives (3,0), (0,3) and (3,3) the new value of (0,0); an
\* update that targets a site on no edge changes at most that site.
C4_CornerMirrors ==
    (last.op \in {"metropolis", "heatbath"} /\ N = 4 /\ M = 4) =>
        LET result == IF last.op = "metropolis" THEN last.trial ELSE last.after
        IN  /\ (last.row = 0 /\ last.col = 0) =>
                   /\ result[<<3, 0>>] = result[<<0, 0>>]
                   /\ result[<<0, 3>>] = result[<<0, 0>>]
                   /\ result[<<3, 3>>] = result[<<0, 0>>]
            /\ (~OnEdge(last.row, N) /\ ~OnEdge(last.col, M)) =>
                   Differing(result, last.before) \subseteq {<<last.row, last.col>>}

\* C5: proposeMutation negates the chosen site; for a site in an edge row
\* and no edge column exactly the site and the cell of the opposite edge
\* row in its column are written, with the same value; likewise for a site
\* in an edge column and no edge row.
C5_EdgeMirror ==
    last.op = "metropolis" =>
        LET site == <<last.row, last.col>>
            new == ~last.before[site]
            rowPair == {site} \cup (OppositeEdge(last.row, N) \X {last.col})
            colPair == {site} \cup ({last.row} \X OppositeEdge(last.col, M))
            writes(pair) ==
                /\ last.cells = pair
                /\ \A c \in Cells(N, M) :
                       last.trial[c] = IF c \in pair THEN new ELSE last.before[c]
        IN  /\ last.trial[site] = new
            /\ (OnEdge(last.row, N) /\ ~OnEdge(last.col, M)) => writes(rowPair)
            /\ (OnEdge(last.col, M) /\ ~OnEdge(last.row, N)) => writes(colPair)

C5_Witness ==
    /\ last.op = "metropolis"
    /\ N = 4 /\ last.row = N - 1 /\ last.col = 1
    /\ last.before[<<0, 1>>] # last.before[<<3, 1>>]
    /\ last.trial[<<0, 1>>] = last.trial[<<3, 1>>]

\* C7: optimize<stepCount> of either sampler calls update exactly
\* stepCount times, one after the other, and returns: a running loop has
\* made i <= stepCount calls, every step of it is one more update or, once
\* i = stepCount, the return; at the return the number of calls is
\* stepCount, and with stepCount = 0 the lattice and the sampler's stream
\* are as at entry.
C7_OptimizeCount ==
    /\ [](/\ loop.on => loop.calls = loop.i /\ loop.i <= loop.stepCount
          /\ last.op = "return" =>
                /\ ~loop.on /\ loop.calls = loop.stepCount
                /\ loop.stepCount = 0 =>
                      /\ state[loop.l] = loop.entry
                      /\ loop.mt0 = IF loop.kind = "metropolis" THEN mtIsing
                                    ELSE mtHeatBath)
    /\ [][loop.on =>
            \/ /\ loop'.on /\ loop.i < loop.stepCount
               /\ loop'.i = loop.i + 1 /\ loop'.calls = loop.calls + 1
               /\ last'.op = loop.kind
               /\ last'.before = state[loop.l]
            \/ /\ ~loop'.on /\ loop.i = loop.stepCount
               /\ last'.op = "return" /\ state' = state]_vars

C7_Witness ==
    /\ last.op = "return"
    /\ loop.kind = "heatbath"
    /\ loop.stepCount = 2 /\ loop.calls = 2
    /\ state[loop.l] # loop.entry

\* C8: with a fixed seed, two optimize runs from identical lattices and
\* identical parameters pass through identical lattices after every step
\* (Metropolis and heat bath): in the fixed-seed driver with equal fills,
\* the trajectory of the second run is that of the first, step by step.
C8_Determinism ==
    (drv.prog = "fixedseed" /\ drv.fill[1] = drv.fill[2]) =>
        /\ Len(drv.traj[2]) <= Len(drv.traj[1])
        /\ \A j \in 1..Len(drv.traj[2]) : drv.traj[2][j] = drv.traj[1][j]

C8_Witness ==
    /\ drv.prog = "fixedseed" /\ drv.fill[1] = drv.fill[2]
    /\ drv.kind = "metropolis"
    /\ drv.run = 2 /\ drv.pc = "output"
    /\ Len(drv.traj[2]) = 3
    /\ drv.traj[2][1] # drv.traj[2][2] /\ drv.traj[2][2] # drv.traj[2][3]

----------------------------------------------------------------------------
(* The pure member functions, applied once to every lattice of PureShapes:  *)
(* IsingModel(Parameter{J}).energy(state) and neighborSpin(state, row, col) *)

PureShapes == {<<1, 1>>, <<1, 3>>, <<3, 1>>, <<2, 2>>, <<2, 3>>, <<3, 2>>,
               <<3, 3>>, <<4, 3>>, <<3, 4>>}

InitPure ==
    \E shape \in PureShapes : \E lat \in Lattices(shape[1], shape[2]) :
        /\ Constructed(shape, lat, 0, 0, 0)
        /\ drv = [NoDrv EXCEPT !.prog = "pure", !.pc = "call"]

\* IsingModel ising(Parameter{.J = j}); ising.energy(state);
CallEnergy(j) ==
    /\ drv.pc = "call"
    /\ param' = [param EXCEPT ![1].J = j]
    /\ last' = [op |-> "energy", obj |-> 1, lat |-> 1, before |-> state[1],
                after |-> state[1], p |-> param'[1],
                res |-> energy(state[1], N, M, param'[1])] @@ NoLast
    /\ drv' = [drv EXCEPT !.pc = "called"]
    /\ UNCHANGED <<random, N, M, state, metro, heat, mtState, mtIsing, mtHeatBath,
                   loop, own, nops, view, net>>

\* hbMethod.neighborSpin(state, row, col);
CallNeighborSpin(row, col) ==
    /\ drv.pc = "call"
    /\ last' = [op |-> "neighborSpin", obj |-> 1, lat |-> 1,
                before |-> state[1], after |-> state[1], row |-> row,
                col |-> col, p |-> param[1],
                res |-> neighborSpin(state[1], N, M, row, col)] @@ NoLast
    /\ drv' = [drv EXCEPT !.pc = "called"]
    /\ UNCHANGED <<random, N, M, state, param, metro, heat, mtState, mtIsing,
                   mtHeatBath, loop, own, nops, view, net>>

NextPure ==
    \/ \E j \in Couplings : CallEnergy(j)
    \/ \E row \in 0..(N - 1), col \in 0..(M - 1) : CallNeighborSpin(row, col)

SpecPure == InitPure /\ [][NextPure]_vars

\* the sum of spin(a) * spin(b) over a set of pairs of sites
RECURSIVE PairSum(_, _)
PairSum(lat, pairs) ==
    IF pairs = {} THEN 0
    ELSE LET pr == CHOOSE pr \in pairs : TRUE
         IN  isingSpin(lat[pr[1]]) * isingSpin(lat[pr[2]])
             + PairSum(lat, pairs \ {pr})

RightPairs(rows, cols) == {<<<<r, c>>, <<r, c + 1>>>> : r \in rows, c \in cols}
DownPairs(rows, cols) == {<<<<r, c>>, <<r + 1, c>>>> : r \in rows, c \in cols}

\* C6 as claimed: energy is -J times the sum over every rightward pair
\* (0 <= r < N, 0 <= c < M-1) and every downward pair (0 <= r < N-1,
\* 0 <= c < M), each once, no wraparound pair.
C6_EnergyEveryPair ==
    last.op = "energy" =>
        last.res = (-last.p.J) *
            PairSum(last.before,
                    RightPairs(0..(N - 1), 0..(M - 2))
                    \cup DownPairs(0..(N - 2), 0..(M - 1)))

\* C6 as amended: energy is -J times the sum over the rightward and the
\* downward pair of every site (r, c) with 0 <= r < N-1 and 0 <= c < M-1,
\* each once: the rightward pairs inside the last row and the downward
\* pairs inside the last column are not counted, nor any wraparound pair.
C6_EnergyInnerPairs ==
    last.op = "energy" =>
        last.res = (-last.p.J) *
            PairSum(last.before,
                    RightPairs(0..(N - 2), 0..(M - 2))
                    \cup DownPairs(0..(N - 2), 0..(M - 2)))

C6_Witness ==
    /\ last.op = "energy"
    /\ N = 3 /\ M = 3 /\ last.p.J = 1
    /\ last.res = -8
    /\ last.before[<<2, 1>>] # last.before[<<2, 2>>]
    /\ last.before[<<1, 2>>] # last.before[<<2, 2>>]

\* C10: Square neighborSpin is the sum of the spins of the up, down, left
\* and right neighbors, the previous index of 0 being size-2 and the next
\* index of the last being 1; the row axis contributes only if N > 2, the
\* column axis only if M > 2, each independently of the other.
C10_SquareNeighbors ==
    last.op = "neighborSpin" =>
        LET prev(idx, size) == IF idx = 0 THEN size - 2 ELSE idx - 1
            next(idx, size) == IF idx = size - 1 THEN 1 ELSE idx + 1
            rowSites == IF N > 2 THEN << <<prev(last.row, N), last.col>>,
                                        <<next(last.row, N), last.col>> >>
                        ELSE <<>>
            colSites == IF M > 2 THEN << <<last.row, prev(last.col, M)>>,
                                        <<last.row, next(last.col, M)>> >>
                        ELSE <<>>
            sites == rowSites \o colSites
            Ups == {k \in 1..Len(sites) : last.before[sites[k]]}
        IN  last.res = Cardinality(Ups) - (Len(sites) - Cardinality(Ups))

C10_Witness ==
    /\ last.op = "neighborSpin"
    /\ N = 4 /\ M = 3 /\ last.row = 0 /\ last.col = 2
    /\ last.before[<<2, 2>>] # last.before[<<3, 2>>]
    /\ last.before[<<0, 0>>] # last.before[<<0, 1>>]
    /\ last.res = 2

----------------------------------------------------------------------------
(* Two objects of every class: lattices 1 and 2, models 1 and 2, and a      *)
(* Metropolis and a heat-bath sampler on each model.  Any object may be     *)
(* reseeded or used, in any order, MaxOps times.                            *)

InitStreams ==
    \E d \in DevValues, v \in BOOLEAN :
        /\ N = 3 /\ M = 3
        \* State(const T& init)
        /\ state = [l \in {1, 2} |-> Filled(3, 3, v)]
        /\ param = [i \in {1, 2} |-> DefaultParam]
        /\ metro = [k \in {1, 2} |-> k]
        /\ heat = [h \in {1, 2} |-> h]
        /\ mtState = SeedState(d)
        /\ mtIsing = SeedState(d)
        /\ mtHeatBath = SeedState(d)
        /\ loop = NoLoop
        /\ drv = [NoDrv EXCEPT !.prog = "streams"]
        /\ last = NoLast
        /\ own = [o \in Objects({1, 2}, {1, 2}, {1, 2}) |-> NotSeeded]
        /\ nops = 0
        /\ random = <<>>
        /\ view = NoView
        /\ net = NoNet

Counted(Op) == nops < MaxOps /\ Op /\ nops' = nops + 1 /\ UNCHANGED <<drv, view, net>>

StreamsSetSeedState == \E l \in DOMAIN state, seed \in Seeds :
    Counted(SetSeedStateOp(l, seed))

StreamsSetSeedIsing == \E i \in DOMAIN param, seed \in Seeds :
    Counted(SetSeedIsingOp(i, seed))

StreamsSetSeedHeatBath == \E h \in DOMAIN heat, seed \in Seeds :
    Counted(SetSeedHeatBathOp(h, seed))

StreamsInitRand == \E l \in DOMAIN state :
    Counted(InitRandOp(l))

StreamsMetropolisUpdate == \E k \in DOMAIN metro, l \in DOMAIN state :
    Counted(MetropolisUpdateOp(k, l) /\ UNCHANGED loop)

StreamsHeatBathUpdate == \E h \in DOMAIN heat, l \in DOMAIN state :
    Counted(HeatBathUpdateOp(h, l) /\ UNCHANGED loop)

NextStreams ==
    \/ StreamsSetSeedState
    \/ StreamsSetSeedIsing
    \/ StreamsSetSeedHeatBath
    \/ StreamsInitRand
    \/ StreamsMetropolisUpdate
    \/ StreamsHeatBathUpdate

SpecStreams == InitStreams /\ [][NextStreams]_vars

\* C9: every lattice, model and sampler object owns its own stream: once
\* an object is reseeded with seed s, the values it draws are those of a
\* generator freshly seeded with s, whatever is drawn or reseeded in
\* between through any other object, of the same class or not.
C9_OwnStream ==
    \A o \in DOMAIN own :
        own[o].seed # -1 =>
            \A j \in 1..Len(own[o].vals) :
                own[o].vals[j]
                  = RngAfter(SeedState(own[o].seed), own[o].base + j)

----------------------------------------------------------------------------
(* The Triangle, Rhombus and Hexagonal specialisations of neighborSpin,     *)
(* each as the sequence of sites whose spins the code adds up.              *)

\* the sum of isingSpin(state.at(site)) over a sequence of sites
RECURSIVE SpinOfSites(_, _)
SpinOfSites(lat, sites) ==
    IF sites = <<>> THEN 0
    ELSE isingSpin(lat[Head(sites)]) + SpinOfSites(lat, Tail(sites))

\* the else branch shared by the specialisations: N <= 2 or M <= 2
AxisSites(n, m, row, col) ==
    LET up == IF row = 0 THEN n - 2 ELSE row - 1
        down == IF row = n - 1 THEN 1 ELSE row + 1
        left == IF col = 0 THEN m - 2 ELSE col - 1
        right == IF col = m - 1 THEN 1 ELSE col + 1
    IN  (IF n > 2 THEN << <<up, col>>, <<down, col>> >> ELSE <<>>)
        \o (IF m > 2 THEN << <<row, left>>, <<row, right>> >> ELSE <<>>)

\* Triangle sites without the row parity: every row as an even row
TriangleSitesEvenOnly(n, m, row, col) ==
    LET up == IF row = 0 THEN n - 2 ELSE row - 1
        down == IF row = n - 1 THEN 1 ELSE row + 1
        left == IF col = 0 THEN m - 2 ELSE col - 1
        right == IF col = m - 1 THEN 1 ELSE col + 1
    IN  IF n > 2 /\ m > 2
        THEN << <<up, col>>, <<up, right>>, <<row, left>>, <<row, right>>,
                <<down, col>>, <<down, right>> >>
        ELSE AxisSites(n, m, row, col)

\* IsingHeatBathMethod<Triangle>::neighborSpin
TriangleSites(n, m, row, col) ==
    LET up == IF row = 0 THEN n - 2 ELSE row - 1
        down == IF row = n - 1 THEN 1 ELSE row + 1
        left == IF col = 0 THEN m - 2 ELSE col - 1
        right == IF col = m - 1 THEN 1 ELSE col + 1
    IN  IF n > 2 /\ m > 2
        THEN IF row % 2 = 0
             THEN << <<up, col>>, <<up, right>>, <<row, left>>,
                     <<row, right>>, <<down, col>>, <<down, right>> >>
             ELSE << <<up, left>>, <<up, col>>, <<row, left>>,
                     <<row, right>>, <<down, left>>, <<down, col>> >>
        ELSE AxisSites(n, m, row, col)

\* Rhombus sites without the row parity: every row as an even row
RhombusSitesEvenOnly(n, m, row, col) ==
    LET up == IF row = 0 THEN n - 2 ELSE row - 1
        down == IF row = n - 1 THEN 1 ELSE row + 1
        right == IF col = m - 1 THEN 1 ELSE col + 1
    IN  IF n > 2 /\ m > 2
        THEN << <<up, col>>, <<up, right>>, <<down, col>>, <<down, right>> >>
        ELSE AxisSites(n, m, row, col)

\* IsingHeatBathMethod<Rhombus>::neighborSpin
RhombusSites(n, m, row, col) ==
    LET up == IF row = 0 THEN n - 2 ELSE row - 1
        down == IF row = n - 1 THEN 1 ELSE row + 1
        left == IF col = 0 THEN m - 2 ELSE col - 1
        right == IF col = m - 1 THEN 1 ELSE col + 1
    IN  IF n > 2 /\ m > 2
        THEN IF row % 2 = 0
             THEN << <<up, col>>, <<up, right>>, <<down, col>>,
                     <<down, right>> >>
             ELSE << <<up, left>>, <<up, col>>, <<down, left>>,
                     <<down, col>> >>
        ELSE AxisSites(n, m, row, col)

\* IsingHeatBathMethod<Hexagonal>::neighborSpin
HexagonalSites(n, m, row, col) ==
    LET up == IF row = 0 THEN n - 2 ELSE row - 1
        down == IF row = n - 1 THEN 1 ELSE row + 1
        left == IF col = 0 THEN m - 2 ELSE col - 1
        right == IF col = m - 1 THEN 1 ELSE col + 1
    IN  IF n > 2 /\ m > 2
        THEN IF row % 4 = 0
             THEN << <<up, col>>, <<down, col>>, <<down, right>> >>
             ELSE IF row % 4 = 1
             THEN << <<up, right>>, <<up, col>>, <<down, col>> >>
             ELSE IF row % 4 = 2
             THEN << <<up, col>>, <<down, left>>, <<down, col>> >>
             ELSE << <<up, col>>, <<up, right>>, <<down, col>> >>
        ELSE AxisSites(n, m, row, col)

TopologySites(type, n, m, row, col) ==
    CASE type = "Triangle" -> TriangleSites(n, m, row, col)
      [] type = "Rhombus" -> RhombusSites(n, m, row, col)
      [] type = "Hexagonal" -> HexagonalSites(n, m, row, col)

\* IsingHeatBathMethod<type> hbMethod(ising); hbMethod.neighborSpin(state, row, col);
CallNeighborSpinOf(type, row, col) ==
    /\ drv.pc = "call"
    /\ last' = [op |-> "neighborSpinOf", type |-> type, obj |-> 1, lat |-> 1,
                before |-> state[1], after |-> state[1], row |-> row,
                col |-> col, p |-> param[1],
                sites |-> TopologySites(type, N, M, row, col),
                res |-> SpinOfSites(state[1],
                                    TopologySites(type, N, M, row, col))]
               @@ NoLast
    /\ drv' = [drv EXCEPT !.pc = "called"]
    /\ UNCHANGED <<random, N, M, state, param, metro, heat, mtState, mtIsing,
                   mtHeatBath, loop, own, nops, view, net>>

CallTriangle == \E row \in 0..(N - 1), col \in 0..(M - 1) :
                    CallNeighborSpinOf("Triangle", row, col)
CallRhombus == \E row \in 0..(N - 1), col \in 0..(M - 1) :
                   CallNeighborSpinOf("Rhombus", row, col)
CallHexagonal == \E row \in 0..(N - 1), col \in 0..(M - 1) :
                     CallNeighborSpinOf("Hexagonal", row, col)

NextTopology == CallTriangle \/ CallRhombus \/ CallHexagonal

SpecTopology == InitPure /\ [][NextTopology]_vars

\* index before and after idx under the fold: before 0 comes size-2, after
\* size-1 comes 1
FoldPrev(idx, size) == IF idx = 0 THEN size - 2 ELSE idx - 1
FoldNext(idx, size) == IF idx = size - 1 THEN 1 ELSE idx + 1

\* number of up sites minus number of down sites of a sequence of sites
SpinBalance(lat, sites) ==
    LET Ups == {k \in 1..Len(sites) : lat[sites[k]]}
    IN  Cardinality(Ups) - (Len(sites) - Cardinality(Ups))

\* the neighbor triple of a row of residue a, as offsets from the site,
\* taken where no index folds
HexagonalOffsets(a) ==
    LET sites == HexagonalSites(10, 4, 4 + a, 1)
    IN  {<<sites[k][1] - (4 + a), sites[k][2] - 1>> : k \in 1..Len(sites)}

\* C11 as claimed: for N > 2 and M > 2 Hexagonal neighborSpin sums exactly
\* three neighbor spins chosen by row mod 4, and the triple of the row's
\* residue differs from the triple of each of the other three residues.
C11_HexagonalTriples ==
    (last.op = "neighborSpinOf" /\ last.type = "Hexagonal" /\ N > 2 /\ M > 2)
    => /\ Len(last.sites) = 3
       /\ last.res = SpinBalance(last.before, last.sites)
       /\ \A b \in 0..3 :
            b # last.row % 4
            => HexagonalOffsets(b) # HexagonalOffsets(last.row % 4)

\* C12: for N > 2 and M > 2 Triangle neighborSpin sums six neighbor spins,
\* on even rows up, up-right, left, right, down, down-right, on odd rows
\* up-left, up, left, right, down-left, down, indices folded size-2 / 1.
C12_TriangleNeighbors ==
    (last.op = "neighborSpinOf" /\ last.type = "Triangle" /\ N > 2 /\ M > 2)
    => LET u == FoldPrev(last.row, N)
           d == FoldNext(last.row, N)
           l == FoldPrev(last.col, M)
           r == FoldNext(last.col, M)
           side == IF last.row % 2 = 0 THEN r ELSE l
       IN  last.res = SpinBalance(last.before,
                          << <<u, last.col>>, <<u, side>>, <<last.row, l>>,
                             <<last.row, r>>, <<d, last.col>>, <<d, side>> >>)

C12_Witness ==
    /\ last.op = "neighborSpinOf" /\ last.type = "Triangle"
    /\ N = 4 /\ M = 3 /\ last.row = 3 /\ last.col = 1
    /\ last.before[<<2, 0>>] /\ ~last.before[<<2, 2>>]
    /\ last.before[<<1, 0>>] /\ ~last.before[<<1, 2>>]
    /\ last.res = 6

\* C13: for N > 2 and M > 2 Rhombus neighborSpin sums four neighbor spins,
\* on even rows up, up-right, down, down-right, on odd rows up-left, up,
\* down-left, down, indices folded size-2 / 1.
C13_RhombusNeighbors ==
    (last.op = "neighborSpinOf" /\ last.type = "Rhombus" /\ N > 2 /\ M > 2)
    => LET u == FoldPrev(last.row, N)
           d == FoldNext(last.row, N)
           l == FoldPrev(last.col, M)
           r == FoldNext(last.col, M)
           side == IF last.row % 2 = 0 THEN r ELSE l
       IN  last.res = SpinBalance(last.before,
                          << <<u, last.col>>, <<u, side>>, <<d, last.col>>,
                             <<d, side>> >>)

C13_Witness ==
    /\ last.op = "neighborSpinOf" /\ last.type = "Rhombus"
    /\ N = 4 /\ M = 3 /\ last.row = 3 /\ last.col = 1
    /\ last.before[<<2, 0>>] /\ ~last.before[<<2, 2>>]
    /\ last.before[<<1, 0>>] /\ ~last.before[<<1, 2>>]
    /\ last.res = 4

----------------------------------------------------------------------------
(* A model whose public param is assigned between the update calls of the  *)
(* two samplers constructed on it.                                          *)

MaxKb == 2

BoltzmannValues == 0..MaxKb

InitParams ==
    \E value \in BOOLEAN, seed \in Seeds :
        /\ Constructed(<<3, 3>>, Filled(3, 3, value), 0, seed, seed)
        /\ drv = [NoDrv EXCEPT !.prog = "params"]

ParamsSetT == \E k \in 1..Len(SweepTemps) :
    Counted(SetTOp(1, SweepTemps[k]))

ParamsSetJ == \E j \in Couplings : Counted(SetJOp(1, j))

ParamsSetKb == \E kb \in BoltzmannValues : Counted(SetKbOp(1, kb))

ParamsMetropolisUpdate == Counted(MetropolisUpdateOp(1, 1) /\ UNCHANGED loop)

ParamsHeatBathUpdate == Counted(HeatBathUpdateOp(1, 1) /\ UNCHANGED loop)

NextParams ==
    \/ ParamsSetT
    \/ ParamsSetJ
    \/ ParamsSetKb
    \/ ParamsMetropolisUpdate
    \/ ParamsHeatBathUpdate

SpecParams == InitParams /\ [][NextParams]_vars

\* C14: an update made after the parameters of the model were changed gives
\* the lattice that the energy, the acceptance and the heat-bath probability
\* computed from the model's present T, J and kb give; no sampler works
\* from parameter values it kept.
C14_CurrentParameters ==
    /\ last.op = "metropolis"
       => last.after = MetropolisUpdate(last.before, N, M,
                                        param[metro[last.obj]], last.mt0).state
    /\ last.op = "heatbath"
       => last.after = HeatBathUpdate(last.before, N, M,
                                      param[heat[last.obj]], last.mt0).state

C14_Witness ==
    /\ last.op = "heatbath"
    /\ param[heat[last.obj]].T # DefaultParam.T
    /\ param[heat[last.obj]].J # DefaultParam.J
    /\ last.after # HeatBathUpdate(last.before, N, M, DefaultParam,
                                   last.mt0).state

----------------------------------------------------------------------------
(* One call of randomAccept or of MetropolisMethod::update on a model with *)
(* any parameters, kb * T = 0 among them.                                   *)

MaxEnergy == 1

Energies == (-MaxEnergy)..MaxEnergy

InitAccept ==
    \E value \in BOOLEAN, j \in Couplings, k \in 1..Len(SweepTemps),
       kb \in BoltzmannValues, x \in RngStates :
        /\ N = 3 /\ M = 3
        /\ state = [l \in {1} |-> Filled(3, 3, value)]
        /\ param = [i \in {1} |-> [J |-> j, T |-> SweepTemps[k], kb |-> kb]]
        /\ metro = [s \in {1} |-> 1]
        /\ heat = [h \in {1} |-> 1]
        /\ mtState = 0
        /\ mtIsing = x
        /\ mtHeatBath = x
        /\ loop = NoLoop
        /\ last = NoLast
        /\ own = [o \in Objects({1}, {1}, {1}) |-> NotSeeded]
        /\ nops = 0
        /\ random = <<>>
        /\ view = NoView
        /\ net = NoNet
        /\ drv = [NoDrv EXCEPT !.prog = "accept", !.pc = "call"]

\* ising.randomAccept(prevEnergy, nextEnergy);
CallRandomAccept(prevEnergy, nextEnergy) ==
    LET r == randomAccept(prevEnergy, nextEnergy, param[1], mtIsing)
    IN  /\ drv.pc = "call"
        /\ mtIsing' = r.mt
        /\ own' = Drew(<<"IsingModel", 1>>, mtIsing, 1)
        /\ last' = [op |-> "randomAccept", obj |-> 1, p |-> param[1],
                    prevE |-> prevEnergy, nextE |-> nextEnergy,
                    asked |-> TRUE, accept |-> r.accept, u |-> r.u,
                    mt0 |-> mtIsing, draws |-> 1] @@ NoLast
        /\ drv' = [drv EXCEPT !.pc = "called"]
        /\ UNCHANGED <<random, N, M, state, param, metro, heat, mtState, mtHeatBath,
                       loop, nops, view, net>>

\* metropolis.update(state);
CallMetropolisUpdate ==
    /\ drv.pc = "call"
    /\ MetropolisUpdateOp(1, 1)
    /\ drv' = [drv EXCEPT !.pc = "called"]
    /\ UNCHANGED <<loop, nops, view, net>>

NextAccept ==
    \/ \E prevEnergy \in Energies, nextEnergy \in Energies :
           CallRandomAccept(prevEnergy, nextEnergy)
    \/ CallMetropolisUpdate

SpecAccept == InitAccept /\ [][NextAccept]_vars

\* C15: with kb * T = 0 the acceptance computation yields a result: asked
\* about a strictly lower energy, whose exponential is +infinity, it always
\* accepts, and a Metropolis update adopts every trial of strictly lower
\* energy and rejects every trial of strictly higher energy.
C15_ZeroTemperature ==
    (last.op \in {"randomAccept", "metropolis"} /\ last.p.kb * last.p.T = 0)
    => /\ last.accept \in BOOLEAN
       /\ (last.op = "randomAccept" /\ last.nextE < last.prevE) => last.accept
       /\ (last.op = "metropolis" /\ last.nextE < last.prevE)
              => last.after = last.trial
       /\ (last.op = "metropolis" /\ last.nextE > last.prevE)
              => last.after = last.before

C15_Witness ==
    /\ last.op = "randomAccept"
    /\ last.p.T = 0 /\ last.p.kb = 1
    /\ last.nextE < last.prevE
    /\ ULevel[last.u] = "0.999"
    /\ last.accept

----------------------------------------------------------------------------
(* State<N, M, double>: two lattices of one type and their initRand calls. *)
(* In this specification mtState is State<N, M, double>::mt and a site     *)
(* holds the numerator of its value over RngMod.                            *)

MaxRange == 2

Ranges == {rg \in (0..MaxRange) \X (0..MaxRange) : rg[1] < rg[2]}

\* std::uniform_real_distribution<>(a, b) applied to a generator state:
\* a + (b - a) * raw / RngMod, as a numerator over RngMod
UniformReal(raw, a, b) == a * RngMod + (b - a) * raw

\* State<N, M, double>::initRand(min, max): the distribution is a static
\* local, constructed from (min, max) by the first call that reaches it
InitRandRealOp(l, min, max) ==
    LET range == IF random = <<>> THEN <<min, max>> ELSE random
        filled == [c \in Cells(N, M) |->
                      UniformReal(RngAfter(mtState, c[1] * M + c[2] + 1),
                                  range[1], range[2])]
    IN  /\ random' = range
        /\ state' = [state EXCEPT ![l] = filled]
        /\ mtState' = RngAfter(mtState, N * M)
        /\ own' = Drew(<<"State", l>>, mtState, N * M)
        /\ last' = [op |-> "initRandReal", obj |-> l, lat |-> l,
                    min |-> min, max |-> max, before |-> state[l],
                    after |-> filled, mt0 |-> mtState, draws |-> N * M]
                   @@ NoLast
        /\ UNCHANGED <<N, M, param, metro, heat, mtIsing, mtHeatBath, loop>>

InitReal ==
    \E shape \in {<<2, 2>>, <<1, 3>>}, seed \in Seeds :
        /\ N = shape[1] /\ M = shape[2]
        /\ state = [l \in {1, 2} |-> Filled(N, M, 0)]
        /\ param = [i \in {1} |-> DefaultParam]
        /\ metro = [k \in {1} |-> 1]
        /\ heat = [h \in {1} |-> 1]
        /\ mtState = SeedState(seed)
        /\ mtIsing = 0
        /\ mtHeatBath = 0
        /\ loop = NoLoop
        /\ drv = [NoDrv EXCEPT !.prog = "real"]
        /\ last = NoLast
        /\ own = [o \in Objects({1, 2}, {1}, {1}) |-> NotSeeded]
        /\ nops = 0
        /\ random = <<>>
        /\ view = NoView
        /\ net = NoNet

RealInitRand == \E l \in DOMAIN state, rg \in Ranges :
    Counted(InitRandRealOp(l, rg[1], rg[2]))

NextReal == RealInitRand

SpecReal == InitReal /\ [][NextReal]_vars

\* C16 as claimed: every call initRand(min, max) on a real-valued lattice
\* leaves every site with a value in [min, max) of that call, whatever
\* range earlier calls on this or another lattice of the type were given.
C16_InitRandRange ==
    last.op = "initRandReal" =>
        \A c \in Cells(N, M) :
            /\ last.min * RngMod <= last.after[c]
            /\ last.after[c] < last.max * RngMod

----------------------------------------------------------------------------
(* Claims on the lattice container and the magnetization.                   *)

\* C17: after init(value) every site (row, col) with row < rows() and
\* col < cols() holds value, whatever the lattice held before, and the
\* lattice has the rows() x cols() sites it had before.
C17_InitFills ==
    last.op = "init" =>
        /\ \A row \in 0..(N - 1), col \in 0..(M - 1) :
               state[last.lat][<<row, col>>] = last.value
        /\ DOMAIN state[last.lat] = DOMAIN last.before
        /\ DOMAIN state[last.lat] = Cells(N, M)

C17_Witness ==
    /\ last.op = "init"
    /\ ~last.value
    /\ \E c, e \in Cells(N, M) : last.before[c] /\ ~last.before[e]
    /\ \A c \in Cells(N, M) : ~state[last.lat][c]

----------------------------------------------------------------------------
(* State<N, M, bool> as a container: instantiation, init, createVector1d,   *)
(* and the static members magnetization and averageSpin of IsingModel.      *)

ContainerShapes == {<<0, 0>>, <<0, 2>>, <<2, 0>>, <<1, 1>>, <<1, 3>>,
                    <<2, 2>>, <<2, 3>>, <<3, 2>>, <<3, 3>>}

\* the contents a std::vector<U> may have when it is handed in
Vectors == {[k \in 1..len |-> 7] : len \in {0, 1, 10}}

\* State<N, M, T> without the static_assert
InstantiateStateNoAssert(n, m) == "ok"

\* instantiating State<N, M, T>: static_assert(N != 0 && M != 0, "invalid size")
InstantiateState(n, m) ==
    IF n # 0 /\ m # 0 THEN "ok" ELSE "static_assert: invalid size"

\* static_cast<U>(_elements[i][j]) of a bool to an arithmetic U
StaticCast(b) == IF b THEN 1 ELSE 0

\* vec.resize(size): leading elements kept, new ones value-initialised
Resized(vec, size) ==
    [k \in 1..size |-> IF k <= Len(vec) THEN vec[k] ELSE 0]

\* the loops writing vec[i + j * N]
RECURSIVE CreateLoopColumnMajor(_, _, _, _, _, _)
CreateLoopColumnMajor(vec, lat, n, m, i, j) ==
    IF i >= n THEN vec
    ELSE IF j >= m THEN CreateLoopColumnMajor(vec, lat, n, m, i + 1, 0)
    ELSE CreateLoopColumnMajor(
             [vec EXCEPT ![i + j * n + 1] = StaticCast(lat[<<i, j>>])],
             lat, n, m, i, j + 1)

createVector1dColumnMajor(lat, n, m, vec) ==
    CreateLoopColumnMajor(Resized(vec, n * m), lat, n, m, 0, 0)

\* the loops of createVector1d; sequences are indexed from 1
RECURSIVE CreateLoop(_, _, _, _, _, _)
CreateLoop(vec, lat, n, m, i, j) ==
    IF i >= n THEN vec
    ELSE IF j >= m THEN CreateLoop(vec, lat, n, m, i + 1, 0)
    ELSE CreateLoop([vec EXCEPT ![i * m + j + 1] = StaticCast(lat[<<i, j>>])],
                    lat, n, m, i, j + 1)

\* State::createVector1d(vec)
createVector1d(lat, n, m, vec) ==
    CreateLoop(Resized(vec, n * m), lat, n, m, 0, 0)

\* a translation unit declaring State<N, M, bool> state, not yet compiled
InitContainer ==
    \E shape \in ContainerShapes :
        /\ N = shape[1] /\ M = shape[2]
        /\ state = <<>>
        /\ param = <<>>
        /\ metro = <<>>
        /\ heat = <<>>
        /\ mtState = 0
        /\ mtIsing = 0
        /\ mtHeatBath = 0
        /\ loop = NoLoop
        /\ last = NoLast
        /\ own = <<>>
        /\ nops = 0
        /\ random = <<>>
        /\ view = NoView
        /\ net = NoNet
        /\ drv = [NoDrv EXCEPT !.prog = "container", !.pc = "instantiate"]

\* State<N, M, bool> state; the compiler rejects the unit, or the program
\* runs and the lattice comes to hold any contents
ContainerInstantiate ==
    /\ drv.pc = "instantiate"
    /\ last' = [op |-> "instantiate", res |-> InstantiateState(N, M)]
               @@ NoLast
    /\ IF InstantiateState(N, M) = "ok"
       THEN /\ \E lat \in Lattices(N, M) : state' = [l \in {1} |-> lat]
            /\ param' = [i \in {1} |-> DefaultParam]
            /\ metro' = [k \in {1} |-> 1]
            /\ heat' = [h \in {1} |-> 1]
            /\ own' = [o \in Objects({1}, {1}, {1}) |-> NotSeeded]
            /\ drv' = [drv EXCEPT !.pc = "call"]
       ELSE /\ drv' = [drv EXCEPT !.pc = "rejected"]
            /\ UNCHANGED <<state, param, metro, heat, own>>
    /\ UNCHANGED <<random, N, M, mtState, mtIsing, mtHeatBath, loop, nops, view, net>>

\* state.init(value);
ContainerInit(value) ==
    /\ drv.pc = "call"
    /\ InitOp(1, value)
    /\ drv' = [drv EXCEPT !.pc = "filled"]
    /\ UNCHANGED <<nops, view, net>>

\* IsingModel::magnetization(state);
ContainerMagnetization ==
    /\ drv.pc \in {"call", "filled"}
    /\ last' = [op |-> "magnetization", lat |-> 1, before |-> state[1],
                after |-> state[1], fresh |-> drv.pc = "filled",
                value |-> last.value, res |-> magnetization(state[1])]
               @@ NoLast
    /\ drv' = [drv EXCEPT !.pc = "called"]
    /\ UNCHANGED <<random, N, M, state, param, metro, heat, mtState, mtIsing,
                   mtHeatBath, loop, own, nops, view, net>>

\* IsingModel::averageSpin(state);
ContainerAverageSpin ==
    /\ drv.pc \in {"call", "filled"}
    /\ last' = [op |-> "averageSpin", lat |-> 1, before |-> state[1],
                after |-> state[1], fresh |-> drv.pc = "filled",
                value |-> last.value, res |-> averageSpin(state[1], N, M)]
               @@ NoLast
    /\ drv' = [drv EXCEPT !.pc = "called"]
    /\ UNCHANGED <<random, N, M, state, param, metro, heat, mtState, mtIsing,
                   mtHeatBath, loop, own, nops, view, net>>

\* state.createVector1d(vec);
ContainerCreateVector1d(vec) ==
    /\ drv.pc \in {"call", "filled"}
    /\ last' = [op |-> "createVector1d", lat |-> 1, before |-> state[1],
                after |-> state[1], vec |-> vec,
                res |-> createVector1d(state[1], N, M, vec)] @@ NoLast
    /\ drv' = [drv EXCEPT !.pc = "called"]
    /\ UNCHANGED <<random, N, M, state, param, metro, heat, mtState, mtIsing,
                   mtHeatBath, loop, own, nops, view, net>>

NextContainer ==
    \/ ContainerInstantiate
    \/ \E value \in BOOLEAN : ContainerInit(value)
    \/ ContainerMagnetization
    \/ ContainerAverageSpin
    \/ \E vec \in Vectors : ContainerCreateVector1d(vec)

SpecContainer == InitContainer /\ [][NextContainer]_vars

\* C18 as claimed: a lattice with rows = 0 or cols = 0 fails to be
\* constructed with an InvalidDimension error, so no lattice with a zero
\* dimension exists and averageSpin never divides by zero.
C18_InvalidDimension ==
    /\ (N = 0 \/ M = 0)
       => /\ state = <<>>
          /\ drv.pc # "instantiate"
             => (last.op = "instantiate" /\ last.res = "InvalidDimension")
    /\ last.op = "averageSpin" => (last.res.k = "fin" /\ last.res.d # 0)

\* C18 as amended: a lattice type with rows = 0 or cols = 0 is rejected
\* when it is instantiated, by the static assertion "invalid size" of the
\* compiler, so no lattice with a zero dimension exists and averageSpin
\* never divides by zero.
C18_ZeroDimensionRejected ==
    /\ (N = 0 \/ M = 0)
       => /\ state = <<>>
          /\ drv.pc # "instantiate"
             => (drv.pc = "rejected" /\ last.op = "instantiate"
                 /\ last.res = "static_assert: invalid size")
    /\ state # <<>> => \A l \in DOMAIN state : DOMAIN state[l] # {}
    /\ last.op = "averageSpin" => (last.res.k = "fin" /\ last.res.d # 0)

C18_Witness ==
    /\ N = 0 /\ M = 2
    /\ drv.pc = "rejected"
    /\ last.res = "static_assert: invalid size"

\* C19: createVector1d leaves a sequence of length N*M whose element at
\* index i*M + j is the value of site (i, j), converted to the element type,
\* for every 0 <= i < N, 0 <= j < M, whatever the sequence held before, and
\* leaves the lattice as it was.
C19_RowMajor ==
    last.op = "createVector1d" =>
        /\ Len(last.res) = N * M
        /\ \A i \in 0..(N - 1), j \in 0..(M - 1) :
               /\ last.res[i * M + j + 1] \in {0, 1}
               /\ (last.res[i * M + j + 1] = 1) <=> last.before[<<i, j>>]
        /\ state[last.lat] = last.before

C19_Witness ==
    /\ last.op = "createVector1d"
    /\ N = 2 /\ M = 3
    /\ Len(last.vec) = 10
    /\ last.res = <<0, 1, 1, 0, 0, 1>>

\* C20: magnetization is the sum over all N*M cells of +1 for an up cell
\* and -1 for a down cell, averageSpin is magnetization / (N*M), and a
\* lattice just filled by init(up) has averageSpin exactly 1.
C20_Magnetization ==
    LET ups == Cardinality({c \in Cells(N, M) : last.before[c]})
        downs == Cardinality({c \in Cells(N, M) : ~last.before[c]})
    IN  /\ last.op = "magnetization" => last.res = ups - downs
        /\ last.op = "averageSpin"
           => /\ last.res.k = "fin"
              /\ last.res.n * (N * M) = (ups - downs) * last.res.d
              /\ (last.fresh /\ last.value) => last.res.n = last.res.d

C20_Witness ==
    /\ last.op = "averageSpin"
    /\ N = 3 /\ M = 2
    /\ last.fresh /\ last.value
    /\ last.res.n = last.res.d
    /\ last.res.n # 0

----------------------------------------------------------------------------
(* The threshold expression of IsingHeatBathMethod::update, evaluated for  *)
(* a coupling J, a value of kbT() and a neighbor sum.                       *)

MaxSum == 4

NeighborSums == (-MaxSum)..MaxSum

\* values of ising->kbT(): kb * T for the temperatures of the sweep, and the
\* smallest positive double
KbTValues ==
    {kbT([J |-> 1, T |-> SweepTemps[k], kb |-> kb]) :
         k \in 1..Len(SweepTemps), kb \in 1..MaxKb}
    \cup {Tiny}

InitThreshold ==
    /\ Constructed(<<3, 3>>, Filled(3, 3, TRUE), 0, 0, 0)
    /\ drv = [NoDrv EXCEPT !.prog = "threshold", !.pc = "call"]

\* 0.5 * (std::tanh(ising->param.J / ising->kbT() * spin) + 1.0)
CallThreshold(J, kbt, spin) ==
    /\ drv.pc = "call"
    /\ last' = [op |-> "threshold", J |-> J, kbT |-> kbt, S |-> spin,
                res |-> HeatBathThreshold(J, kbt, spin)] @@ NoLast
    /\ drv' = [drv EXCEPT !.pc = "called"]
    /\ UNCHANGED <<random, N, M, state, param, metro, heat, mtState, mtIsing,
                   mtHeatBath, loop, own, nops, view, net>>

NextThreshold ==
    \E J \in Couplings, kbt \in KbTValues, spin \in NeighborSums :
        CallThreshold(J, kbt, spin)

SpecThreshold == InitThreshold /\ [][NextThreshold]_vars

\* C21 as claimed: for every S, every J and every T > 0 the threshold
\* 0.5 * (tanh(J / (kb*T) * S) + 1) computed in update is a value of the
\* closed interval [0, 1].
C21_ThresholdInUnitInterval ==
    (last.op = "threshold" /\ Sign(last.kbT) > 0)
    => last.res \in {"zero", "inside", "one"}

----------------------------------------------------------------------------
(* Claims on sequences of updates.                                          *)

\* C22 as claimed: from a lattice filled with one value, after any sequence
\* of Metropolis and heat-bath updates every cell of row 0 equals the cell
\* of the last row in its column and every cell of column 0 equals the cell
\* of the last column in its row.
C22_MirrorsConsistent ==
    drv.prog = "params" =>
        \A l \in DOMAIN state :
            /\ \A col \in 0..(M - 1) :
                   state[l][<<0, col>>] = state[l][<<N - 1, col>>]
            /\ \A row \in 0..(N - 1) :
                   state[l][<<row, 0>>] = state[l][<<row, M - 1>>]

\* C23 as claimed: a Metropolis trial whose energy equals the current
\* energy is always adopted, at every temperature T >= 0, T = 0 included.
C23_EqualEnergyAdopted ==
    (last.op = "metropolis" /\ last.nextE = last.prevE /\ last.p.T >= 0)
    => state[last.lat] = last.trial

\* C24 as claimed: with T = 0 and J > 0 a heat-bath update sets the site up
\* when its neighbor sum S is positive and down when S is negative, and when
\* S = 0 both outcomes remain possible: some draw u gives up, some gives down.
C24_ZeroTemperatureHeatBath ==
    (last.op = "heatbath" /\ last.p.T = 0 /\ last.p.J > 0)
    => /\ last.S > 0 => last.value
       /\ last.S < 0 => ~last.value
       /\ last.S = 0 =>
              /\ \E u \in DOMAIN ULevel : HeatBathValue(last.S, last.p, u)
              /\ \E u \in DOMAIN ULevel : ~HeatBathValue(last.S, last.p, u)

----------------------------------------------------------------------------
(* neighborSpin of the four topologies on lattices tall enough for every    *)
(* row residue to occur away from the folded edges.                         *)

NeighborShapes == {<<3, 3>>, <<4, 4>>, <<5, 4>>, <<7, 4>>, <<8, 5>>}

TopologyTypes == {"Square", "Triangle", "Rhombus", "Hexagonal"}

\* IsingHeatBathMethod<Square>::neighborSpin as the sequence of sites added
SquareSites(n, m, row, col) ==
    LET up == IF row = 0 THEN n - 2 ELSE row - 1
        down == IF row = n - 1 THEN 1 ELSE row + 1
        left == IF col = 0 THEN m - 2 ELSE col - 1
        right == IF col = m - 1 THEN 1 ELSE col + 1
    IN  IF n > 2 /\ m > 2
        THEN << <<up, col>>, <<down, col>>, <<row, left>>, <<row, right>> >>
        ELSE AxisSites(n, m, row, col)

NeighborSites(type, n, m, row, col) ==
    IF type = "Square" THEN SquareSites(n, m, row, col)
    ELSE TopologySites(type, n, m, row, col)

InitNeighbors ==
    \E shape \in NeighborShapes, value \in BOOLEAN :
        /\ Constructed(shape, Filled(shape[1], shape[2], value), 0, 0, 0)
        /\ drv = [NoDrv EXCEPT !.prog = "neighbors", !.pc = "call"]

\* IsingHeatBathMethod<type> hbMethod(ising); hbMethod.neighborSpin(state, row, col);
CallNeighborSites(type, row, col) ==
    /\ drv.pc = "call"
    /\ last' = [op |-> "neighborSites", type |-> type, obj |-> 1, lat |-> 1,
                before |-> state[1], after |-> state[1], row |-> row,
                col |-> col, p |-> param[1],
                sites |-> NeighborSites(type, N, M, row, col),
                res |-> SpinOfSites(state[1],
                                    NeighborSites(type, N, M, row, col))]
               @@ NoLast
    /\ drv' = [drv EXCEPT !.pc = "called"]
    /\ UNCHANGED <<random, N, M, state, param, metro, heat, mtState, mtIsing,
                   mtHeatBath, loop, own, nops, view, net>>

NextNeighbors ==
    \E type \in TopologyTypes, row \in 0..(N - 1), col \in 0..(M - 1) :
        CallNeighborSites(type, row, col)

SpecNeighbors == InitNeighbors /\ [][NextNeighbors]_vars

\* the sites whose own neighbors are computed without a fold
InteriorSites(n, m) == (1..(n - 2)) \X (1..(m - 2))

SitesOf(seq) == {seq[k] : k \in 1..Len(seq)}

\* C25 as claimed: in each topology the neighbor relation is symmetric on
\* interior sites: for interior a and b, b is among the sites summed for a
\* if and only if a is among the sites summed for b.
C25_NeighborsSymmetric ==
    (last.op = "neighborSites"
     /\ <<last.row, last.col>> \in InteriorSites(N, M))
    => \A b \in InteriorSites(N, M) :
           (b \in SitesOf(last.sites))
           <=> (<<last.row, last.col>>
                    \in SitesOf(NeighborSites(last.type, N, M, b[1], b[2])))

\* C26: in the fixed-seed heat-bath sweep the site (row, col) and the draw u
\* of the k-th update of a run are functions of the seed, k and the lattice
\* shape alone: they are the same for every initial lattice and every
\* temperature, so the all-up and the all-down run visit the same sites in
\* the same order.
C26_SitesFromSeed ==
    (drv.prog = "fixedseed" /\ drv.kind = "heatbath" /\ last.op = "heatbath")
    => LET x == RngAfter(SeedState(drv.seed), 3 * (loop.calls - 1))
       IN  /\ last.row = UniformInt(RngAfter(x, 1), 0, N - 1)
           /\ last.col = UniformInt(RngAfter(x, 2), 0, M - 1)
           /\ last.u = Rand01(RngAfter(x, 3))

\* the second update of the all-down run at a temperature above 0, on a
\* lattice that differs from the one the all-up run had at the same step
C26_Witness ==
    /\ drv.prog = "fixedseed" /\ drv.kind = "heatbath"
    /\ last.op = "heatbath" /\ loop.calls = 2
    /\ drv.run = 2 /\ drv.fill = <<TRUE, FALSE>> /\ last.p.T > 0
    /\ Len(drv.traj[1]) = 3 /\ drv.traj[1][2] # last.before

----------------------------------------------------------------------------
(* State<N, M, bool>::sum<int>() applied once to every lattice of           *)
(* PureShapes.  A read of _elements[n][m] with m >= M is outside the row:   *)
(* its value is whatever the build finds there, chosen by the caller.       *)

\* the index pairs the two loops of sum() read
SumReads(n, m) == (0..(n - 1)) \X (0..(n - 1))

\* the value sum() returns on lattice lat, the reads outside the lattice
\* giving the values of outside
StateSum(lat, n, m, outside) ==
    Cardinality({c \in SumReads(n, m) :
                    IF c \in Cells(n, m) THEN lat[c] ELSE outside[c]})

\* state.sum<int>();
CallSum(outside) ==
    /\ drv.pc = "call"
    /\ last' = [op |-> "sum", obj |-> 1, lat |-> 1, before |-> state[1],
                after |-> state[1], cells |-> SumReads(N, M),
                res |-> StateSum(state[1], N, M, outside)] @@ NoLast
    /\ drv' = [drv EXCEPT !.pc = "called"]
    /\ UNCHANGED <<random, N, M, state, param, metro, heat, mtState, mtIsing,
                   mtHeatBath, loop, own, nops, view, net>>

NextSum == \E outside \in [SumReads(N, M) \ Cells(N, M) -> BOOLEAN] :
               CallSum(outside)

SpecSum == InitPure /\ [][NextSum]_vars

\* C27 as claimed: sum() returns the sum of all N * M elements of the
\* lattice and reads no cell outside it, for every shape, N # M included.
C27_SumAllElements ==
    last.op = "sum"
    => /\ last.res = Cardinality({c \in Cells(N, M) : last.before[c]})
       /\ last.cells \subseteq Cells(N, M)

----------------------------------------------------------------------------
(* The lattice viewer: one CellItem with its timer, and the slots the       *)
(* controls of CellViewSettingWidget and ParameterSettingWidget are         *)
(* connected to.  Slots run to completion on the GUI thread, one at a time. *)
(* The lattice is 3 x 3 (50 x 50 in the source); view.method is the index   *)
(* of Method: 0 Metropolis, 1 HeatBath.                                     *)

MaxViewOps == 6
MaxCountBound == 2

\* the values maxCountSpin delivers
MaxCounts == 0..MaxCountBound

\* the values JDoubleSpin delivers, in hundredths: two decimals, -1000..1000
JControlValues == {-100000, -150, -50, 0, 50, 100, 100000}

\* the lattices initCell draws with rand() % 2 == 0
ViewLattices == {Filled(3, 3, TRUE), Filled(3, 3, FALSE),
                 Written(Filled(3, 3, FALSE), {<<1, 1>>}, TRUE)}

\* the conversion of the double v (in hundredths) to int in param.J = value:
\* truncation toward zero
DoubleToInt(v) == IF v >= 0 THEN v \div 100 ELSE -((-v) \div 100)

\* the members before the constructor body: state(StateType(0)), ising(IsingModel())
InitViewer ==
    /\ Constructed(<<3, 3>>, Filled(3, 3, FALSE), 0, 0, 0)
    /\ drv = [NoDrv EXCEPT !.prog = "viewer"]

\* a slot of the constructed item runs and leaves the members v
ViewSlot(name, v) ==
    /\ view.built /\ view.ops < MaxViewOps
    /\ view' = [v EXCEPT !.ops = view.ops + 1, !.did = name]

\* the body of initCell on the members v
InitCellMembers(v) ==
    [v EXCEPT !.stepCount = 0, !.active = FALSE, !.updates = 0,
              !.maxSeen = v.maxCount]

\* CellItem::CellItem: initCell(); setInterval(0); connect(timer, ...)
ViewConstruct ==
    /\ ~view.built
    /\ \E lat \in ViewLattices : state' = [state EXCEPT ![1] = lat]
    /\ view' = [InitCellMembers(view) EXCEPT !.built = TRUE, !.ops = 1,
                                             !.did = "construct"]
    /\ UNCHANGED <<N, M, param, metro, heat, mtState, mtIsing, mtHeatBath,
                   loop, drv, last, own, nops, random, net>>

\* CellItem::initCell
ViewInitCell ==
    /\ ViewSlot("initCell", InitCellMembers(view))
    /\ \E lat \in ViewLattices : state' = [state EXCEPT ![1] = lat]
    /\ UNCHANGED <<N, M, param, metro, heat, mtState, mtIsing, mtHeatBath,
                   loop, drv, last, own, nops, random, net>>

\* CellItem::startUpdate
ViewStartUpdate ==
    /\ ViewSlot("startUpdate", [view EXCEPT !.active = TRUE])
    /\ UNCHANGED <<N, M, state, param, metro, heat, mtState, mtIsing,
                   mtHeatBath, loop, drv, last, own, nops, random, net>>

\* CellItem::stopUpdate
ViewStopUpdate ==
    /\ ViewSlot("stopUpdate", [view EXCEPT !.active = FALSE])
    /\ UNCHANGED <<N, M, state, param, metro, heat, mtState, mtIsing,
                   mtHeatBath, loop, drv, last, own, nops, random, net>>

\* CellItem::setMethod(index)
ViewSetMethod(index) ==
    /\ ViewSlot("setMethod", [view EXCEPT !.method = index])
    /\ UNCHANGED <<N, M, state, param, metro, heat, mtState, mtIsing,
                   mtHeatBath, loop, drv, last, own, nops, random, net>>

\* CellItem::setMaxCount(count)
ViewSetMaxCount(count) ==
    /\ ViewSlot("setMaxCount",
                [view EXCEPT !.maxCount = count,
                             !.maxSeen = IF count > @ THEN count ELSE @])
    /\ UNCHANGED <<N, M, state, param, metro, heat, mtState, mtIsing,
                   mtHeatBath, loop, drv, last, own, nops, random, net>>

\* CellItem::setParamJ(value) followed by paramJ(): res is the double
\* paramJ() returns, in hundredths
ViewSetParamJ(v) ==
    /\ ViewSlot("setParamJ", view)
    /\ param' = [param EXCEPT ![1].J = DoubleToInt(v)]
    /\ last' = [op |-> "setParamJ", obj |-> 1, v |-> v,
                res |-> 100 * DoubleToInt(v)] @@ NoLast
    /\ UNCHANGED <<N, M, state, metro, heat, mtState, mtIsing, mtHeatBath,
                   loop, drv, own, nops, random, net>>

\* the condition of updateCell read with <= for <
UpdateCellGuardInclusive(stepCount, maxCount) == stepCount <= maxCount

\* if(stepCount < _maxCount)
UpdateCellGuard(stepCount, maxCount) == stepCount < maxCount

\* the timer fires and runs CellItem::updateCell
ViewUpdateCell ==
    /\ view.active
    /\ IF UpdateCellGuard(view.stepCount, view.maxCount)
       THEN /\ ViewSlot("updateCell",
                        [view EXCEPT !.stepCount = @ + 1, !.updates = @ + 1])
            /\ IF view.method = 0 THEN MetropolisUpdateOp(1, 1)
               ELSE HeatBathUpdateOp(1, 1)
            /\ UNCHANGED <<loop, drv, nops, net>>
       ELSE /\ ViewSlot("updateCellSkipped", view)
            /\ UNCHANGED <<N, M, state, param, metro, heat, mtState, mtIsing,
                           mtHeatBath, loop, drv, last, own, nops, random, net>>

NextViewer ==
    \/ ViewConstruct
    \/ ViewInitCell
    \/ ViewStartUpdate
    \/ ViewStopUpdate
    \/ \E index \in {0, 1} : ViewSetMethod(index)
    \/ \E count \in MaxCounts : ViewSetMaxCount(count)
    \/ \E v \in JControlValues : ViewSetParamJ(v)
    \/ ViewUpdateCell

SpecViewer == InitViewer /\ [][NextViewer]_vars

\* C28 as claimed: for every value v the J control delivers, after
\* setParamJ(v) paramJ() returns v.
C28_ParamJRoundTrip ==
    last.op = "setParamJ" => last.res = last.v

\* what updateCell may change besides stepCount: the lattice, the
\* parameters, the streams, the timer, the method and the limit
ViewProgramState ==
    <<state, param, mtState, mtIsing, mtHeatBath, view.stepCount,
      view.maxCount, view.active, view.method>>

\* a timer tick: updateCell ran in this step
ViewTicked ==
    /\ view'.ops = view.ops + 1
    /\ view'.did \in {"updateCell", "updateCellSkipped"}

\* C29: under any interleaving of timer ticks with start, stop, init,
\* setMethod and setMaxCount, a tick applies exactly one update of the
\* selected method and increments stepCount if stepCount < maxCount, and
\* changes nothing otherwise; initCell sets stepCount to 0 and stops the
\* timer; stepCount is the number of updates applied since the last initCell
\* and never exceeds the largest maxCount in effect since then.
C29_TickCounts ==
    /\ [](view.built =>
            /\ view.stepCount = view.updates
            /\ view.stepCount <= view.maxSeen
            /\ view.did \in {"construct", "initCell"}
               => (view.stepCount = 0 /\ ~view.active))
    /\ [][ViewTicked =>
            IF view.stepCount < view.maxCount
            THEN /\ view'.stepCount = view.stepCount + 1
                 /\ view'.updates = view.updates + 1
                 /\ last'.op = (IF view.method = 0 THEN "metropolis"
                                ELSE "heatbath")
                 /\ last'.before = state[1] /\ last'.after = state'[1]
                 /\ <<view.maxCount, view.active, view.method>>'
                      = <<view.maxCount, view.active, view.method>>
            ELSE ViewProgramState' = ViewProgramState]_vars

\* a tick that found stepCount at the limit after an update was applied, the
\* limit having been lowered from its default
C29_Witness ==
    /\ view.did = "updateCellSkipped"
    /\ view.stepCount = 1 /\ view.maxCount = 1 /\ view.updates = 1
    /\ view.maxSeen = DefaultMaxCount /\ view.active

----------------------------------------------------------------------------
(* Network::train on a training set of net.size samples (train_x and        *)
(* train_t have one row per sample), with the observer any function that    *)
(* sets or leaves breakFlag.  Integer division by zero is undefined: the    *)
(* step either traps or goes on with some batch index.                      *)

MaxTrain == 3

\* std::iota / std::shuffle of dataIndexes: the orders of 0..size-1
IndexOrders(size) ==
    {f \in [0..(size - 1) -> 0..(size - 1)] :
        \A i, j \in 0..(size - 1) : f[i] = f[j] => i = j}

InitTrain ==
    /\ Constructed(<<1, 1>>, Filled(1, 1, FALSE), 0, 0, 0)
    /\ drv = [NoDrv EXCEPT !.prog = "train"]

\* lModel.setBatchSize(batchSize); lModel.setStepCount(stepCount);
\* lModel.setTrainData(...); network.train() up to the for statement
TrainEnter(size, batchSize, stepCount) ==
    /\ net.pc = "idle"
    /\ net' = [NoNet EXCEPT !.pc = "loop", !.size = size,
                            !.batchSize = batchSize, !.stepCount = stepCount,
                            !.numIter = size \div batchSize,
                            !.dataIndexes = [i \in 0..(size - 1) |-> i]]
    /\ UNCHANGED <<N, M, state, param, metro, heat, mtState, mtIsing,
                   mtHeatBath, loop, drv, last, own, nops, random, view>>

\* the body of the for loop with batch index batchIndex, the shuffle giving
\* order and the observer setting breakFlag to flag
TrainBody(batchIndex, order, flag) ==
    LET b == batchIndex * net.batchSize
        indexes == IF batchIndex = 0 THEN order ELSE net.dataIndexes
        positions == b..(b + net.batchSize - 1)
        inside == positions \subseteq DOMAIN indexes
    IN  [net EXCEPT
           !.epoch = IF batchIndex = 0 THEN @ + 1 ELSE @,
           !.dataIndexes = indexes,
           !.reads = @ \cup {IF pos \in DOMAIN indexes THEN indexes[pos]
                             ELSE pos : pos \in positions},
           !.steps = @ + 1,
           !.breakFlag = inside /\ flag,
           !.pc = IF ~inside THEN "trapped"
                  ELSE IF flag THEN "done" ELSE "loop",
           !.step = IF inside /\ ~flag THEN @ + 1 ELSE @]

\* one iteration: step < stepCount, the body, if(linfo.breakFlag) break; ++step
TrainStep ==
    /\ net.pc = "loop" /\ net.step < net.stepCount
    /\ \E order \in IndexOrders(net.size), flag \in BOOLEAN :
         IF net.numIter # 0
         THEN net' = TrainBody(net.step % net.numIter, order, flag)
         ELSE \/ net' = [net EXCEPT !.pc = "trapped", !.steps = @ + 1]
              \/ \E batchIndex \in 0..net.step :
                     net' = TrainBody(batchIndex, order, flag)
    /\ UNCHANGED <<N, M, state, param, metro, heat, mtState, mtIsing,
                   mtHeatBath, loop, drv, last, own, nops, random, view>>

\* step < stepCount fails and train returns
TrainReturn ==
    /\ net.pc = "loop" /\ ~(net.step < net.stepCount)
    /\ net' = [net EXCEPT !.pc = "done"]
    /\ UNCHANGED <<N, M, state, param, metro, heat, mtState, mtIsing,
                   mtHeatBath, loop, drv, last, own, nops, random, view>>

NextTrain ==
    \/ \E size \in 1..MaxTrain, batchSize \in 1..MaxTrain,
          stepCount \in 0..MaxTrain : TrainEnter(size, batchSize, stepCount)
    \/ TrainStep
    \/ TrainReturn

SpecTrain == InitTrain /\ [][NextTrain]_vars

\* C30 as claimed: for every non-empty training set and every batch size
\* >= 1, train never ends abnormally, runs at most stepCount steps, has
\* stopped once the observer has set breakFlag, and reads only indexes
\* inside the training set.
C30_TrainTerminates ==
    net.pc # "idle"
    => /\ net.pc # "trapped"
       /\ net.steps <= net.stepCount
       /\ net.breakFlag => net.pc = "done"
       /\ net.reads \subseteq 0..(net.size - 1)

====
